---- MODULE Spec2Model ----
(***************************************************************************)
(* Verification model of the Keyboards-firmware key pipeline (key_lib):    *)
(* the ScanCodeBehavior codec, the analog key-state machines, the layer    *)
(* resolution engine and the report generator.                             *)
(***************************************************************************)
EXTENDS Integers, Sequences, FiniteSets, TLC

VARIABLES
    \* --- ScanCodeBehavior codec (codes.rs) ---
    c_val,      \* the ScanCodeBehavior value last handed to into_buffer
    c_buf,      \* the destination buffer after into_buffer
    c_enc,      \* result of into_buffer: "none" | "Ok" | "BufferTooSmall"
    c_src,      \* the byte slice last handed to deserialize_from
    c_dec,      \* result of deserialize_from
    c_reads,    \* indices (0-based) of c_src read by deserialize_from
    c_rt,       \* TRUE when c_src is the encoding of c_val
    c_op,       \* "idle" | "encoded" | "decoded": the codec call last made
    \* --- ScanCodeLayerStorage codec (codes.rs) ---
    t_cells,    \* the table last serialized
    t_bytes,    \* the bytes serialize_into produced (buffer[..storage_size])
    t_enc,      \* result of serialize_into: "none" | "Ok" | "BufferTooSmall"
    t_dec,      \* result of ScanCodeLayerStorage::deserialize_from
    t_op,       \* "idle" | "encoded" | "decoded": the table call last made
    \* --- DigitalPosition (position.rs) ---
    dp,         \* the DigitalPosition struct
    d_op,       \* the KeyState call last made on dp
    \* --- WootingPosition (position.rs) ---
    wp,              \* the WootingPosition struct
    w_op,            \* the KeyState call last made on wp
    w_panic,         \* TRUE once an arithmetic overflow check has panicked
    overflow_checks, \* build profile: u16 overflow panics (TRUE) or wraps (FALSE)
    \* --- Keys and Report (keys.rs, report.rs, storage.rs) ---
    keys,            \* the Keys struct
    report,          \* the Report struct
    flash,           \* stored layer records, by internal storage key
    pressed_keys,    \* the Vec get_keys filled on the last report tick
    returned_report, \* TRUE when the last tick returned a keyboard report
    e_op,            \* "init" | "load" | "report" | "settle": the engine call last made
    settle_elapsed,  \* ms elapsed since the settle timer was armed
    load_res,        \* Result of the load_keys_from_storage run by the last call
    e_arg,           \* config_num handed to that load
    e_ret,           \* what the last call returned to its caller
    e_panic,         \* TRUE once an index or a push has panicked
    h_latch,         \* history: modifier byte of the last Sticky-only tick not yet
                     \* followed by a tick with a real press and no Sticky
    h_toggled,       \* history: layer of the last LayerToggle signal (0 if none)
    h_pressed,       \* history: is_pressed of every key as the last get_keys call
                     \* found it
    h_first,         \* history: per key pressed at the last get_keys call, the
                     \* layer get_keys took for it on the call where its
                     \* present run of presses began (None when not pressed)
    \* --- Report with mouse keys (report.rs) ---
    m_keys,          \* the Keys struct holding the mouse key table
    m_report,        \* keyboard side of the Report struct
    m_mouse,         \* mouse side of the Report struct: mouse_report and gates
    m_out,           \* what the last generate_report built and returned
    \* radio link
    cen,              \* CentralConnection of the central
    cen_pc,           \* position of the central inside handle_connection
    cen_try,          \* sends of the current packet made by the central
    cen_pkt,          \* packet the central is sending
    per,              \* state, tx_id and num_missed_events of RadioPerp
    per_pc,           \* position of the peripheral inside run
    per_try,          \* sends of the current packet made by the peripheral
    per_pkt,          \* packet the peripheral is sending
    SEND_CHANNEL,     \* outbound mailbox of each side
    RECV_CHANNEL,     \* receive mailbox of each side
    air,              \* packet being transmitted, or None
    app_wait,         \* packet of a suspended send_packet call, per side
    app_sent,         \* send_packet calls made so far, per side
    channel,          \* "lossy", "lossless", "failing" (lossy, and may die) or
                      \* "dead" (every packet is lost)
    h_last,           \* history: last Data packet accepted in this connection
    h_log,            \* history: payloads pushed into RECV_CHANNEL, per side
    h_evicted,        \* history: packets a push removed from RECV_CHANNEL, per side
    h_taken,          \* history: packets receive_packet returned, per side
    h_sent,           \* history: id of the last new Data packet a side sent in
                      \* this connection, per side (None before the first)
    h_miss,           \* history: events the peripheral missed in a row in this
                      \* connection: receive slots without Data and sends
                      \* without Ack
    \* --- byte-stream protocol (com.rs) ---
    cw,               \* the ContiniousWriter
    cr,               \* the ContiniousReader
    com_wire,         \* frames sent by the writer and not yet read
    com_out,          \* frames the last request sent to the host
    com_op,           \* the request com_loop handled last
    com_res,          \* Result of the load_keys_from_com run by that request
    com_panic,        \* TRUE once com_loop has panicked
    h_written,        \* history: bytes handed to the writer
    h_read,           \* history: bytes the reader returned
    cw_flushed,       \* TRUE once the writer was flushed
    \* --- HeSwitch and the calibration phase (position.rs, sensors.rs) ---
    he_kind,          \* variant of the HeSwitch: "Wooting" | "Digital"
    cal_i,            \* position of HallEffectSensors::setup in its for loop
    cal_setup,        \* the setup flag of HallEffectSensors::setup
    \* --- the radio peripheral and its futures (inner_radio.rs) ---
    hw,               \* state and event registers of the RADIO peripheral
    rf,               \* the ReceiveFuture or SendFuture alive, its init and complete flags
    rr_pc,            \* position of the task: "idle", "receive", "send" or "drop"
    rr_ret,           \* how the last call ended
    rr_calls,         \* calls of receive_with_conditions and send made so far
    rr_tries,         \* ReceiveFutures created by the present call
    \* --- the Keys mutex between com_loop and the scan task (com.rs, bin/left.rs) ---
    k_lock,           \* holder of the Keys mutex: "none", "com" or "scan"
    lk_pc,            \* position of com_loop: "idle", "lock" or "move"
    lk_req,           \* the bulk request com_loop is handling
    lk_arg,           \* config_num read by UpdateKeys
    lk_i,             \* config_num of the for loop of KeyboardInfo / WriteToFlash
    lk_n,             \* parts of the present table moved so far
    lk_cfg,           \* config_num of the shared Keys (the active profile)
    lk_runs,          \* bulk requests handled so far
    sc_pc,            \* position of key_loop: "idle" or "report"
    h_scans,          \* history: reports generated since the first byte of the transfer
    h_cfg0,           \* history: active profile when the request arrived
    \* --- the storage read service (storage.rs) ---
    rq_lock,          \* holder of STORAGE_REQUEST_READ_LOCK, or None
    sig_read,         \* STORAGE_SIGNAL_READ: the key signalled, or None
    sig_item,         \* STORAGE_SIGNAL_ITEM: the item signalled, or None
    st_pc,            \* position of read_loop: "wait" or "fetch"
    st_key,           \* key read_loop is fetching
    cl_pc,            \* position of each caller of get_item: "idle", "lock" or "wait"
    cl_key,           \* key each caller asked for
    cl_calls,         \* get_item calls made so far, per caller
    cl_got,           \* what get_item returned last, per caller
    \* --- get_keys on the whole board (keys.rs) ---
    gk_i,             \* index of the for loop of get_keys
    gk_set,           \* the Vec<ReportCodes, 64> of the call
    gk_panic,         \* TRUE once a push has failed
    gk_calls,         \* calls of get_keys made so far
    \* --- Keys<HeSwitch, I> of the hall-effect board (keys.rs) ---
    hk,               \* the Keys struct, its switches with variant and calibration
    hk_op,            \* the last operation on it
    hk_res            \* the Result of the last load_keys_from_storage

codecVars == <<c_val, c_buf, c_enc, c_src, c_dec, c_reads, c_rt, c_op>>
tableVars == <<t_cells, t_bytes, t_enc, t_dec, t_op>>
digitalVars == <<dp, d_op>>
wootingVars == <<wp, w_op, w_panic, overflow_checks>>
engineVars == <<keys, report, flash, pressed_keys, returned_report, e_op,
                settle_elapsed, load_res, e_arg, e_ret, e_panic, h_latch, h_toggled,
                h_pressed, h_first>>
mouseVars == <<m_keys, m_report, m_mouse, m_out>>
radioVars == <<cen, cen_pc, cen_try, cen_pkt, per, per_pc, per_try, per_pkt,
              SEND_CHANNEL, RECV_CHANNEL, air, app_wait, app_sent, channel,
              h_last, h_log, h_evicted, h_taken, h_sent, h_miss>>
comVars == <<cw, cr, com_wire, com_out, com_op, com_res, com_panic,
            h_written, h_read, cw_flushed>>
switchVars == <<he_kind, cal_i, cal_setup>>
hwVars == <<hw, rf, rr_pc, rr_ret, rr_calls, rr_tries>>
lockVars == <<k_lock, lk_pc, lk_req, lk_arg, lk_i, lk_n, lk_cfg, lk_runs, sc_pc, h_scans, h_cfg0>>
storageVars == <<rq_lock, sig_read, sig_item, st_pc, st_key, cl_pc, cl_key, cl_calls, cl_got>>
boardVars == <<gk_i, gk_set, gk_panic, gk_calls>>
heKeysVars == <<hk, hk_op, hk_res>>
vars == <<codecVars, tableVars, digitalVars, wootingVars, engineVars, mouseVars, radioVars, comVars, switchVars, hwVars, lockVars, storageVars, boardVars, heKeysVars>>

(***************************************************************************)
(* Bounds of the model.                                                    *)
(***************************************************************************)
\* longest byte slice handed to deserialize_from
MaxSrcLen == 4
\* calls of the radio driver followed, and receive attempts within one call
MaxRadioCalls == 4
MaxReceives == 3
\* parts a table is moved in, bulk requests followed, and reports counted
\* within one transfer
TableChunks == 2
MaxTransfers == 2
MaxScans == 2
\* tasks that call get_item, and calls each of them makes
NumCallers == 3
MaxReads == 2
\* calls of get_keys on the whole board
MaxBoardCalls == 1
\* longest byte buffer handed to the layer decoder
MaxRawLen == 6
\* number of cells of a serialized layer table
TableN == 2
\* ADC readings fed to the analog switches: SampleBase + k * SampleStep
SampleBase == 1380
SampleStep == 5
NumSamples == 70
\* build-time sizes of the key matrix (key_lib/build.rs)
NUM_KEYS == 3
NUM_LAYERS == 3
NUM_CONFIGS == 2
\* granularity of the clock while the settle timer runs, in ms
TimeStep == 250
\* ms between two report ticks: a short and a long scan period
ShortTickMs == 20
LongTickMs == 60
\* longest time a mouse key is followed while held, in ms
MaxHoldMs == 200

(***************************************************************************)
(* u8 / usize helpers.                                                     *)
(***************************************************************************)
U8Mod == 2 ^ 8

\* `x as u8`: truncating cast
AsU8(x) == x % U8Mod

(***************************************************************************)
(* KeyCodes (scan_codes.rs): a fieldless u8 enum.  `code as u8` gives the  *)
(* discriminant and From<u8> maps a byte back, unknown bytes becoming      *)
(* Undefined.                                                              *)
(***************************************************************************)
KeyCodes ==
    { "Undefined", "KeyboardAa", "KeyboardBb", "KeyboardLeftControl",
      "KeyboardLeftShift", "Layer1", "Layer2", "LayerToggle1", "LayerToggle2",
      "MouseLeftClick", "MouseXPos", "MouseXNeg", "MouseYPos",
      "MouseScrollPos" }

\* `code as u8`
KeyCodeAsU8(code) ==
    CASE code = "Undefined"           -> 3
      [] code = "KeyboardAa"          -> 4
      [] code = "KeyboardBb"          -> 5
      [] code = "KeyboardLeftControl" -> 224
      [] code = "KeyboardLeftShift"   -> 225
      [] code = "Layer1"              -> 241
      [] code = "Layer2"              -> 242
      [] code = "LayerToggle1"        -> 249
      [] code = "LayerToggle2"        -> 250
      [] code = "MouseLeftClick"      -> 232
      [] code = "MouseXPos"           -> 235
      [] code = "MouseXNeg"           -> 236
      [] code = "MouseYPos"           -> 237
      [] code = "MouseScrollPos"      -> 239

\* `byte.into()`
KeyCodeFromU8(byte) ==
    IF \E code \in KeyCodes : KeyCodeAsU8(code) = byte
    THEN CHOOSE code \in KeyCodes : KeyCodeAsU8(code) = byte
    ELSE "Undefined"

(***************************************************************************)
(* ScanCodeBehavior (codes.rs:12-23).  One record shape for all variants:  *)
(* codes holds the KeyCodes payload, n the usize / u8 payload.             *)
(***************************************************************************)
Single(code) == [tag |-> "Single", codes |-> <<code>>, n |-> 0]
Double(code0, code1) == [tag |-> "Double", codes |-> <<code0, code1>>, n |-> 0]
Triple(code0, code1, code2) ==
    [tag |-> "Triple", codes |-> <<code0, code1, code2>>, n |-> 0]
CombinedKey(other_index, normal_code, combined_code) ==
    [tag |-> "CombinedKey", codes |-> <<normal_code, combined_code>>,
     n |-> other_index]
ChangeConfig(config_num) == [tag |-> "ChangeConfig", codes |-> <<>>, n |-> config_num]

\* ScanCodeBehavior::default()
ScanCodeDefault == Single("Undefined")

SINGLE_SERIAL_LENGTH == 2
DOUBLE_SERIAL_LENGTH == 3
TRIPLE_SERIAL_LENGTH == 4
COMBINED_KEY_SERIAL_LENGTH == 4
CHANGE_CONFIG_SERIAL_LENGTH == 2
MAX_SERIAL_LENGTH == 4

\* HidScanCodeType as u8
HidTypeAsU8(tag) ==
    CASE tag = "Single"       -> 0
      [] tag = "Double"       -> 1
      [] tag = "Triple"       -> 2
      [] tag = "CombinedKey"  -> 3
      [] tag = "ChangeConfig" -> 4

HidTypes == {"Single", "Double", "Triple", "CombinedKey", "ChangeConfig"}

\* A wrong tag decoder: an unknown byte falls back to Single.
HidTypeTryFromLenient(byte) ==
    IF \E tag \in HidTypes : HidTypeAsU8(tag) = byte
    THEN CHOOSE tag \in HidTypes : HidTypeAsU8(tag) = byte
    ELSE "Single"

\* HidScanCodeType::try_from(u8): "Invalid" stands for Err
HidTypeTryFrom(byte) ==
    IF \E tag \in HidTypes : HidTypeAsU8(tag) = byte
    THEN CHOOSE tag \in HidTypes : HidTypeAsU8(tag) = byte
    ELSE "Invalid"

\* HidScanCodeType::get_len
GetLen(tag) ==
    CASE tag = "Single"       -> SINGLE_SERIAL_LENGTH
      [] tag = "Double"       -> DOUBLE_SERIAL_LENGTH
      [] tag = "Triple"       -> TRIPLE_SERIAL_LENGTH
      [] tag = "CombinedKey"  -> COMBINED_KEY_SERIAL_LENGTH
      [] tag = "ChangeConfig" -> CHANGE_CONFIG_SERIAL_LENGTH

\* ScanCodeBehavior::into_buffer_len
IntoBufferLen(v) ==
    CASE v.tag = "Single"       -> SINGLE_SERIAL_LENGTH
      [] v.tag = "Double"       -> DOUBLE_SERIAL_LENGTH
      [] v.tag = "Triple"       -> TRIPLE_SERIAL_LENGTH
      [] v.tag = "CombinedKey"  -> COMBINED_KEY_SERIAL_LENGTH
      [] v.tag = "ChangeConfig" -> CHANGE_CONFIG_SERIAL_LENGTH

\* The bytes into_buffer writes at buffer[0..into_buffer_len()].
EncodedBytes(v) ==
    CASE v.tag = "Single" ->
            <<HidTypeAsU8("Single"), KeyCodeAsU8(v.codes[1])>>
      [] v.tag = "Double" ->
            <<HidTypeAsU8("Double"), KeyCodeAsU8(v.codes[1]), KeyCodeAsU8(v.codes[2])>>
      [] v.tag = "Triple" ->
            <<HidTypeAsU8("Triple"), KeyCodeAsU8(v.codes[1]), KeyCodeAsU8(v.codes[2]),
              KeyCodeAsU8(v.codes[3])>>
      [] v.tag = "CombinedKey" ->
            <<HidTypeAsU8("CombinedKey"), KeyCodeAsU8(v.codes[1]),
              KeyCodeAsU8(v.codes[2]), AsU8(v.n)>>
      [] v.tag = "ChangeConfig" ->
            <<HidTypeAsU8("ChangeConfig"), v.n>>

\* ScanCodeBehavior::into_buffer(&self, buffer): the result and the buffer
\* afterwards (bytes past the encoded length keep their old content).
IntoBuffer(v, buffer) ==
    IF Len(buffer) < IntoBufferLen(v)
    THEN [res |-> "BufferTooSmall", buffer |-> buffer]
    ELSE [res |-> "Ok",
          buffer |-> [i \in 1..Len(buffer) |->
                        IF i <= IntoBufferLen(v) THEN EncodedBytes(v)[i]
                        ELSE buffer[i]]]

DecOk(v) == [err |-> "none", val |-> v]
DecErr(e) == [err |-> e, val |-> ScanCodeDefault]

\* ScanCodeBehavior::deserialize_from(buffer); buffer[0] on an empty slice
\* is an out-of-bounds index ("Panic").
DeserializeFrom(buffer) ==
    IF Len(buffer) = 0 THEN DecErr("Panic")
    ELSE LET hid_type == HidTypeTryFrom(buffer[1]) IN
         CASE hid_type = "Invalid" -> DecErr("InvalidFormat")
           [] hid_type = "Single" ->
                IF Len(buffer) < SINGLE_SERIAL_LENGTH THEN DecErr("BufferTooSmall")
                ELSE DecOk(Single(KeyCodeFromU8(buffer[2])))
           [] hid_type = "Double" ->
                IF Len(buffer) < DOUBLE_SERIAL_LENGTH THEN DecErr("BufferTooSmall")
                ELSE DecOk(Double(KeyCodeFromU8(buffer[2]), KeyCodeFromU8(buffer[3])))
           [] hid_type = "Triple" ->
                IF Len(buffer) < TRIPLE_SERIAL_LENGTH THEN DecErr("BufferTooSmall")
                ELSE DecOk(Triple(KeyCodeFromU8(buffer[2]), KeyCodeFromU8(buffer[3]),
                                  KeyCodeFromU8(buffer[4])))
           [] hid_type = "CombinedKey" ->
                IF Len(buffer) < COMBINED_KEY_SERIAL_LENGTH THEN DecErr("BufferTooSmall")
                ELSE DecOk(CombinedKey(buffer[4], KeyCodeFromU8(buffer[2]),
                                       KeyCodeFromU8(buffer[3])))
           [] hid_type = "ChangeConfig" ->
                IF Len(buffer) < CHANGE_CONFIG_SERIAL_LENGTH THEN DecErr("BufferTooSmall")
                ELSE DecOk(ChangeConfig(buffer[2]))

\* The 0-based indices of buffer that deserialize_from reads.
DeserializeReads(buffer) ==
    IF Len(buffer) = 0 THEN {0}
    ELSE LET hid_type == HidTypeTryFrom(buffer[1]) IN
         IF hid_type = "Invalid" THEN {0}
         ELSE IF Len(buffer) < GetLen(hid_type) THEN {0}
         ELSE CASE hid_type = "Single"       -> {0, 1}
                [] hid_type = "Double"       -> {0, 1, 2}
                [] hid_type = "Triple"       -> {0, 1, 2, 3}
                [] hid_type = "CombinedKey"  -> {0, 1, 2, 3}
                [] hid_type = "ChangeConfig" -> {0, 1}

(***************************************************************************)
(* Inputs of the codec.                                                    *)
(***************************************************************************)
\* key codes used as codec payloads
CodecKeyCodes == {"Undefined", "KeyboardAa", "KeyboardLeftShift", "Layer1"}
\* usize values of other_index: in and out of the one-byte range
OtherIndexValues == {0, 1, 255, 256, 300}
\* u8 values of ChangeConfig
ConfigNumValues == {0, 1, 255}

CellValues ==
    {Single(a) : a \in CodecKeyCodes}
    \cup {Double(a, b) : a \in CodecKeyCodes, b \in CodecKeyCodes}
    \cup {Triple(a, b, c) : a \in CodecKeyCodes, b \in CodecKeyCodes, c \in CodecKeyCodes}
    \cup {CombinedKey(i, a, b) : i \in OtherIndexValues, a \in CodecKeyCodes,
                                 b \in CodecKeyCodes}
    \cup {ChangeConfig(k) : k \in ConfigNumValues}

\* bytes of the slices handed to deserialize_from
SrcBytes == {0, 1, 2, 3, 4, 5, 225, 255}

RECURSIVE SeqsUpTo(_, _)
SeqsUpTo(S, n) ==
    IF n = 0 THEN {<<>>}
    ELSE LET shorter == SeqsUpTo(S, n - 1) IN
         shorter \cup {Append(s, x) : s \in {q \in shorter : Len(q) = n - 1}, x \in S}

Zeros(n) == [i \in 1..n |-> 0]

CodecInit ==
    /\ c_val = ScanCodeDefault
    /\ c_buf = <<>>
    /\ c_enc = "none"
    /\ c_src = <<>>
    /\ c_dec = DecErr("none")
    /\ c_reads = {}
    /\ c_rt = FALSE
    /\ c_op = "idle"

\* into_buffer of a value into a zeroed buffer of n bytes
EncodeCell(v, n) ==
    /\ c_op = "idle"
    /\ c_op' = "encoded"
    /\ c_val' = v
    /\ c_buf' = IntoBuffer(v, Zeros(n)).buffer
    /\ c_enc' = IntoBuffer(v, Zeros(n)).res
    /\ c_src' = <<>>
    /\ c_dec' = DecErr("none")
    /\ c_reads' = {}
    /\ c_rt' = FALSE
    /\ UNCHANGED <<tableVars, digitalVars, wootingVars, engineVars, mouseVars, radioVars, comVars, switchVars, hwVars, lockVars, storageVars, boardVars, heKeysVars>>

\* deserialize_from of the bytes the last into_buffer produced
\* (keys.rs:190-192 hands over buf[..into_buffer_len()])
DecodeEncoded ==
    /\ c_op = "encoded"
    /\ c_enc = "Ok"
    /\ c_op' = "decoded"
    /\ LET src == SubSeq(c_buf, 1, IntoBufferLen(c_val)) IN
       /\ c_src' = src
       /\ c_dec' = DeserializeFrom(src)
       /\ c_reads' = DeserializeReads(src)
    /\ c_rt' = TRUE
    /\ UNCHANGED <<c_val, c_buf, c_enc>>
    /\ UNCHANGED <<tableVars, digitalVars, wootingVars, engineVars, mouseVars, radioVars, comVars, switchVars, hwVars, lockVars, storageVars, boardVars, heKeysVars>>

\* deserialize_from of an arbitrary non-empty or empty byte slice
DecodeBytes(src) ==
    /\ c_op = "idle"
    /\ c_op' = "decoded"
    /\ c_src' = src
    /\ c_dec' = DeserializeFrom(src)
    /\ c_reads' = DeserializeReads(src)
    /\ c_rt' = FALSE
    /\ UNCHANGED <<c_val, c_buf, c_enc>>
    /\ UNCHANGED <<tableVars, digitalVars, wootingVars, engineVars, mouseVars, radioVars, comVars, switchVars, hwVars, lockVars, storageVars, boardVars, heKeysVars>>

\* the call returns; the next call starts from fresh locals
CodecClear ==
    /\ c_op # "idle"
    /\ c_op' = "idle"
    /\ c_val' = ScanCodeDefault
    /\ c_buf' = <<>>
    /\ c_enc' = "none"
    /\ c_src' = <<>>
    /\ c_dec' = DecErr("none")
    /\ c_reads' = {}
    /\ c_rt' = FALSE
    /\ UNCHANGED <<tableVars, digitalVars, wootingVars, engineVars, mouseVars, radioVars, comVars, switchVars, hwVars, lockVars, storageVars, boardVars, heKeysVars>>

CodecNext ==
    \/ \E v \in CellValues, n \in 0..(MAX_SERIAL_LENGTH + 1) : EncodeCell(v, n)
    \/ DecodeEncoded
    \/ \E src \in SeqsUpTo(SrcBytes, MaxSrcLen) : DecodeBytes(src)
    \/ CodecClear

(***************************************************************************)
(* ScanCodeLayerStorage<N> (codes.rs:208-257).                             *)
(***************************************************************************)
\* ScanCodeLayerStorage::default()
LayerStorageDefault(n) == [i \in 1..n |-> ScanCodeDefault]

RECURSIVE SumLens(_, _)
SumLens(codes, k) ==
    IF k = 0 THEN 0 ELSE SumLens(codes, k - 1) + IntoBufferLen(codes[k])

\* self.codes.map(|x| x.into_buffer_len()).iter().sum()
StorageSize(codes) == SumLens(codes, Len(codes))

\* the write loop of serialize_into: cell k (1-based) goes to
\* buffer[i..i + code_len], then i += code_len
RECURSIVE SerializeLoop(_, _, _, _)
SerializeLoop(codes, k, i, buffer) ==
    IF k > Len(codes) THEN buffer
    ELSE LET code_len == IntoBufferLen(codes[k])
             slice == IntoBuffer(codes[k], SubSeq(buffer, i + 1, i + code_len)).buffer
         IN  SerializeLoop(codes, k + 1, i + code_len,
                 [x \in 1..Len(buffer) |->
                    IF x > i /\ x <= i + code_len THEN slice[x - i] ELSE buffer[x]])

\* ScanCodeLayerStorage::serialize_into(&self, buffer)
LayerSerializeInto(codes, buffer) ==
    IF Len(buffer) < StorageSize(codes)
    THEN [res |-> "BufferTooSmall", size |-> 0, buffer |-> buffer]
    ELSE [res |-> "Ok", size |-> StorageSize(codes),
          buffer |-> SerializeLoop(codes, 1, 0, buffer)]

\* the loop of ScanCodeLayerStorage::deserialize_from; codes.codes[code_i]
\* with code_i >= N is an out-of-bounds index ("Panic")
RECURSIVE DeserializeLoop(_, _, _, _)
DeserializeLoop(buffer, buf_i, code_i, codes) ==
    IF ~(buf_i < Len(buffer)) THEN [err |-> "none", codes |-> codes]
    ELSE LET code == DeserializeFrom(SubSeq(buffer, buf_i + 1, Len(buffer))) IN
         IF code.err # "none" THEN [err |-> code.err, codes |-> codes]
         ELSE IF ~(code_i < Len(codes)) THEN [err |-> "Panic", codes |-> codes]
         ELSE DeserializeLoop(buffer, buf_i + IntoBufferLen(code.val), code_i + 1,
                              [codes EXCEPT ![code_i + 1] = code.val])

\* ScanCodeLayerStorage::<N>::deserialize_from(buffer)
LayerDeserializeFrom(buffer, n) ==
    DeserializeLoop(buffer, 0, 0, LayerStorageDefault(n))

\* key codes, indices and profile numbers used as table payloads
TableKeyCodes == {"KeyboardAa", "Layer1"}
TableOtherIndex == {1, 256}
TableConfigNum == {1}

TableCellValues ==
    {Single(a) : a \in TableKeyCodes}
    \cup {Double(a, b) : a \in TableKeyCodes, b \in TableKeyCodes}
    \cup {Triple(a, b, c) : a \in TableKeyCodes, b \in TableKeyCodes, c \in TableKeyCodes}
    \cup {CombinedKey(i, a, b) : i \in TableOtherIndex, a \in TableKeyCodes,
                                 b \in TableKeyCodes}
    \cup {ChangeConfig(k) : k \in TableConfigNum}

TableInit ==
    /\ t_cells = LayerStorageDefault(TableN)
    /\ t_bytes = <<>>
    /\ t_enc = "none"
    /\ t_dec = [err |-> "none", codes |-> LayerStorageDefault(TableN)]
    /\ t_op = "idle"

\* serialize_into of a table into a zeroed buffer of storage_size + d bytes
TableEncode(codes, d) ==
    /\ t_op = "idle"
    /\ t_op' = "encoded"
    /\ t_cells' = codes
    /\ LET r == LayerSerializeInto(codes, Zeros(StorageSize(codes) + d)) IN
       /\ t_enc' = r.res
       /\ t_bytes' = SubSeq(r.buffer, 1, r.size)
    /\ UNCHANGED t_dec
    /\ UNCHANGED <<codecVars, digitalVars, wootingVars, engineVars, mouseVars, radioVars, comVars, switchVars, hwVars, lockVars, storageVars, boardVars, heKeysVars>>

\* deserialize_from of the stored bytes
TableDecodeEncoded ==
    /\ t_op = "encoded"
    /\ t_enc = "Ok"
    /\ t_op' = "decoded"
    /\ t_dec' = LayerDeserializeFrom(t_bytes, TableN)
    /\ UNCHANGED <<t_cells, t_bytes, t_enc>>
    /\ UNCHANGED <<codecVars, digitalVars, wootingVars, engineVars, mouseVars, radioVars, comVars, switchVars, hwVars, lockVars, storageVars, boardVars, heKeysVars>>

\* the call returns; the next call starts from fresh locals
TableClear ==
    /\ t_op # "idle"
    /\ t_op' = "idle"
    /\ t_cells' = LayerStorageDefault(TableN)
    /\ t_bytes' = <<>>
    /\ t_enc' = "none"
    /\ t_dec' = [err |-> "none", codes |-> LayerStorageDefault(TableN)]
    /\ UNCHANGED <<codecVars, digitalVars, wootingVars, engineVars, mouseVars, radioVars, comVars, switchVars, hwVars, lockVars, storageVars, boardVars, heKeysVars>>

TableNext ==
    \/ \E codes \in [1..TableN -> TableCellValues], d \in {-1, 0, 1} : TableEncode(codes, d)
    \/ TableDecodeEncoded
    \/ TableClear

\* the 0-based indices of buffer that the loop of
\* ScanCodeLayerStorage::deserialize_from reads through the cell decoder;
\* the loop ends at the first error and at the first cell that has no place
\* in the table
RECURSIVE DeserializeLoopReads(_, _, _, _)
DeserializeLoopReads(buffer, buf_i, code_i, n) ==
    IF ~(buf_i < Len(buffer)) THEN {}
    ELSE LET slice == SubSeq(buffer, buf_i + 1, Len(buffer))
             code == DeserializeFrom(slice)
             here == {buf_i + r : r \in DeserializeReads(slice)}
         IN  IF code.err # "none" \/ ~(code_i < n) THEN here
             ELSE here \cup DeserializeLoopReads(buffer, buf_i + IntoBufferLen(code.val),
                                                code_i + 1, n)

\* bytes of the buffers handed to the decoder: the tags of Single and
\* Triple, and a byte that is no tag
RawBytes == {0, 2, 9}

RawBuffers == UNION {[1..n -> RawBytes] : n \in 0..MaxRawLen}

\* deserialize_from of any byte buffer (a record read from flash)
TableDecodeBytes(buffer) ==
    /\ t_op = "idle"
    /\ t_op' = "raw"
    /\ t_bytes' = buffer
    /\ t_dec' = LayerDeserializeFrom(buffer, TableN)
    /\ UNCHANGED <<t_cells, t_enc>>
    /\ UNCHANGED <<codecVars, digitalVars, wootingVars, engineVars, mouseVars, radioVars, comVars, switchVars, hwVars, lockVars, storageVars, boardVars, heKeysVars>>

TableRawNext ==
    \/ \E buffer \in RawBuffers : TableDecodeBytes(buffer)
    \/ TableClear

(***************************************************************************)
(* f32 arithmetic of position.rs: (SCALE * dif) as u16, where SCALE is an  *)
(* f32 constant mant * 2^-exp (24-bit mantissa) and dif an integer below   *)
(* 2^16.  The product is rounded to 24 significant bits, ties to even,     *)
(* then truncated by the cast.  Intermediate values stay below 2^31.       *)
(***************************************************************************)
U16Mod == 2 ^ 16

RECURSIVE BitLen(_)
BitLen(x) == IF x = 0 THEN 0 ELSE 1 + BitLen(x \div 2)

F32MulTrunc(mant, exp, dif) ==
    IF dif = 0 THEN 0
    ELSE LET a  == (mant \div 4096) * dif
             b  == (mant % 4096) * dif
             hi == a + (b \div 4096)
             lo == b % 4096
             sh == BitLen(hi) - 12
         IN  IF sh <= 0 THEN (hi * 4096 + lo) \div (2 ^ exp)
             ELSE LET q0   == IF sh <= 12
                              THEN hi * (2 ^ (12 - sh)) + (lo \div (2 ^ sh))
                              ELSE hi \div (2 ^ (sh - 12))
                      rem  == IF sh <= 12
                              THEN lo % (2 ^ sh)
                              ELSE (hi % (2 ^ (sh - 12))) * 4096 + lo
                      half == 2 ^ (sh - 1)
                      q    == IF rem > half \/ (rem = half /\ q0 % 2 = 1)
                              THEN q0 + 1 ELSE q0
                  IN  q \div (2 ^ (exp - sh))

DEFAULT_HIGH == 1700
DEFAULT_LOW == 1400
BUFFER_SIZE == 1
\* DEFAULT_RELEASE_SCALE = 0.30f32 = 10066330 * 2^-25
RELEASE_SCALE_MANT == 10066330
\* DEFAULT_ACTUATE_SCALE = 0.35f32 = 11744051 * 2^-25
ACTUATE_SCALE_MANT == 11744051
SCALE_EXP == 25
\* TOLERANCE_SCALE = 0.1f32 = 13421773 * 2^-27
TOLERANCE_SCALE_MANT == 13421773
TOLERANCE_SCALE_EXP == 27

\* (DEFAULT_RELEASE_SCALE * dif) as u16
ReleaseOffset(dif) == F32MulTrunc(RELEASE_SCALE_MANT, SCALE_EXP, dif)
\* (DEFAULT_ACTUATE_SCALE * dif) as u16
ActuateOffset(dif) == F32MulTrunc(ACTUATE_SCALE_MANT, SCALE_EXP, dif)
\* (dif * TOLERANCE_SCALE) as u16
ToleranceOf(dif) == F32MulTrunc(TOLERANCE_SCALE_MANT, TOLERANCE_SCALE_EXP, dif)

\* ADC readings (u16) the sensors deliver
Samples == {0} \cup {SampleBase + k * SampleStep : k \in 0..NumSamples}

RECURSIVE SumU16(_, _)
SumU16(buffer, k) ==
    IF k = 0 THEN 0 ELSE (SumU16(buffer, k - 1) + buffer[k]) % U16Mod

\* sum of the buffer / BUFFER_SIZE
BufAvg(buffer) == SumU16(buffer, Len(buffer)) \div BUFFER_SIZE

(***************************************************************************)
(* DigitalPosition (position.rs:80-178).                                   *)
(***************************************************************************)
\* DigitalPosition::DEFAULT
DigitalDefault ==
    [buffer          |-> [i \in 1..BUFFER_SIZE |-> 0],
     buffer_pos      |-> 0,
     release_point   |-> DEFAULT_HIGH - ReleaseOffset(DEFAULT_HIGH - DEFAULT_LOW),
     actuation_point |-> DEFAULT_HIGH - ActuateOffset(DEFAULT_HIGH - DEFAULT_LOW),
     pressed         |-> FALSE,
     lowest_point    |-> DEFAULT_LOW,
     highest_point   |-> DEFAULT_HIGH]

\* DigitalPosition::calibrate
DigitalCalibrate(s, buf) ==
    LET hi == IF s.highest_point < buf THEN buf ELSE s.highest_point
        lo == IF ~(s.highest_point < buf) /\ s.lowest_point > buf
              THEN buf ELSE s.lowest_point
        changed == s.highest_point < buf \/ s.lowest_point > buf
    IN  IF changed
        THEN [s EXCEPT !.highest_point = hi,
                       !.lowest_point = lo,
                       !.release_point = hi - ReleaseOffset(hi - lo),
                       !.actuation_point = hi - ActuateOffset(hi - lo)]
        ELSE s

\* update_buf without the hysteresis band: release at the actuation point
DigitalUpdateBufNoBand(s, pos) ==
    LET s1  == [s EXCEPT !.buffer[s.buffer_pos + 1] = pos,
                         !.buffer_pos = (s.buffer_pos + 1) % BUFFER_SIZE]
        avg == BufAvg(s1.buffer)
        s2  == DigitalCalibrate(s1, avg)
    IN  IF avg <= s2.actuation_point THEN [s2 EXCEPT !.pressed = TRUE]
        ELSE [s2 EXCEPT !.pressed = FALSE]

\* DigitalPosition::update_buf
DigitalUpdateBuf(s, pos) ==
    LET s1  == [s EXCEPT !.buffer[s.buffer_pos + 1] = pos,
                         !.buffer_pos = (s.buffer_pos + 1) % BUFFER_SIZE]
        avg == BufAvg(s1.buffer)
        s2  == DigitalCalibrate(s1, avg)
    IN  IF avg <= s2.actuation_point THEN [s2 EXCEPT !.pressed = TRUE]
        ELSE IF avg > s2.release_point THEN [s2 EXCEPT !.pressed = FALSE]
        ELSE s2

\* DigitalPosition::setup: the new state and the returned bool
DigitalSetup(s, reading) ==
    IF s.buffer[1] = 0 \/ s.buffer_pos # 0
    THEN [state |-> [s EXCEPT !.buffer[s.buffer_pos + 1] = reading,
                              !.buffer_pos = (s.buffer_pos + 1) % BUFFER_SIZE],
          ret |-> FALSE]
    ELSE [state |-> DigitalCalibrate(s, BufAvg(s.buffer)), ret |-> TRUE]

\* A wrong reset: the calibration extrema go back to their defaults.
DigitalResetForget(s) ==
    [s EXCEPT !.buffer = [i \in 1..BUFFER_SIZE |-> DEFAULT_HIGH],
              !.buffer_pos = 0,
              !.pressed = FALSE,
              !.lowest_point = DEFAULT_LOW,
              !.highest_point = DEFAULT_HIGH]

\* DigitalPosition::reset
DigitalReset(s) ==
    [s EXCEPT !.buffer = [i \in 1..BUFFER_SIZE |-> s.highest_point],
              !.buffer_pos = 0,
              !.pressed = FALSE]

DigitalInit ==
    /\ dp = DigitalDefault
    /\ d_op = "init"

DigitalDoSetup(reading) ==
    /\ dp' = DigitalSetup(dp, reading).state
    /\ d_op' = "setup"
    /\ UNCHANGED <<codecVars, tableVars, wootingVars, engineVars, mouseVars, radioVars, comVars, switchVars, hwVars, lockVars, storageVars, boardVars, heKeysVars>>

DigitalDoUpdateBuf(pos) ==
    /\ dp' = DigitalUpdateBuf(dp, pos)
    /\ d_op' = "update_buf"
    /\ UNCHANGED <<codecVars, tableVars, wootingVars, engineVars, mouseVars, radioVars, comVars, switchVars, hwVars, lockVars, storageVars, boardVars, heKeysVars>>

DigitalDoReset ==
    /\ dp' = DigitalReset(dp)
    /\ d_op' = "reset"
    /\ UNCHANGED <<codecVars, tableVars, wootingVars, engineVars, mouseVars, radioVars, comVars, switchVars, hwVars, lockVars, storageVars, boardVars, heKeysVars>>

DigitalNext ==
    \/ \E reading \in Samples : DigitalDoSetup(reading)
    \/ \E pos \in Samples : DigitalDoUpdateBuf(pos)
    \/ DigitalDoReset

(***************************************************************************)
(* WootingPosition (position.rs:180-297).                                  *)
(***************************************************************************)
\* u16 `a - b`: wraps, or panics when the build checks overflow
SubU16(a, b, checks) ==
    IF a >= b THEN [val |-> a - b, panic |-> FALSE]
    ELSE [val |-> a - b + U16Mod, panic |-> checks]

\* u16 `a + b`: wraps, or panics when the build checks overflow
AddU16(a, b, checks) ==
    IF a + b < U16Mod THEN [val |-> a + b, panic |-> FALSE]
    ELSE [val |-> a + b - U16Mod, panic |-> checks]

\* WootingPosition::DEFAULT
WootingDefault ==
    [buffer          |-> [i \in 1..BUFFER_SIZE |-> 0],
     last_pos        |-> 0,
     buffer_pos      |-> 0,
     release_point   |-> DEFAULT_HIGH - ReleaseOffset(DEFAULT_HIGH - DEFAULT_LOW),
     actuation_point |-> DEFAULT_HIGH - ActuateOffset(DEFAULT_HIGH - DEFAULT_LOW),
     lowest_point    |-> DEFAULT_LOW,
     highest_point   |-> DEFAULT_HIGH,
     pressed         |-> FALSE,
     wooting         |-> FALSE,
     tolerance       |-> ToleranceOf(DEFAULT_HIGH - DEFAULT_LOW)]

\* WootingPosition::calibrate
WootingCalibrate(s, buf) ==
    LET hi == IF s.highest_point < buf THEN buf ELSE s.highest_point
        lo == IF ~(s.highest_point < buf) /\ s.lowest_point > buf
              THEN buf ELSE s.lowest_point
        changed == s.highest_point < buf \/ s.lowest_point > buf
    IN  IF changed
        THEN [s EXCEPT !.highest_point = hi,
                       !.lowest_point = lo,
                       !.release_point = hi - ReleaseOffset(hi - lo),
                       !.actuation_point = hi - ActuateOffset(hi - lo),
                       !.tolerance = ToleranceOf(hi - lo)]
        ELSE s

\* WootingPosition::update_buf: the new state, and whether the call panicked
\* on an overflow check (the struct then keeps what was written so far)
WootingUpdateBuf(s, pos, checks) ==
    LET s1  == [s EXCEPT !.buffer[s.buffer_pos + 1] = pos,
                         !.buffer_pos = (s.buffer_pos + 1) % BUFFER_SIZE]
        avg == BufAvg(s1.buffer)
        sub == SubU16(s1.last_pos, s1.tolerance, checks)
        add == AddU16(s1.last_pos, s1.tolerance, checks)
    IN  IF avg > s1.release_point
        THEN [state |-> WootingCalibrate([s1 EXCEPT !.last_pos = avg,
                                                    !.wooting = FALSE,
                                                    !.pressed = FALSE], avg),
              panic |-> FALSE]
        ELSE IF avg < s1.lowest_point
        THEN [state |-> WootingCalibrate([s1 EXCEPT !.last_pos = avg,
                                                    !.wooting = TRUE,
                                                    !.pressed = TRUE], avg),
              panic |-> FALSE]
        ELSE IF sub.panic THEN [state |-> s1, panic |-> TRUE]
        ELSE IF avg < sub.val \/ (avg <= s1.actuation_point /\ ~s1.wooting)
        THEN [state |-> [s1 EXCEPT !.last_pos = avg,
                                   !.wooting = TRUE,
                                   !.pressed = TRUE],
              panic |-> FALSE]
        ELSE IF add.panic THEN [state |-> s1, panic |-> TRUE]
        ELSE IF avg > add.val
        THEN [state |-> [s1 EXCEPT !.last_pos = avg, !.pressed = FALSE],
              panic |-> FALSE]
        ELSE [state |-> s1, panic |-> FALSE]

\* WootingPosition::setup: the new state and the returned bool
WootingSetup(s, reading) ==
    IF s.buffer[1] = 0 \/ s.buffer_pos # 0
    THEN [state |-> [s EXCEPT !.buffer[s.buffer_pos + 1] = reading,
                              !.buffer_pos = (s.buffer_pos + 1) % BUFFER_SIZE],
          ret |-> FALSE]
    ELSE [state |-> WootingCalibrate(s, BufAvg(s.buffer)), ret |-> TRUE]

\* WootingPosition::reset
WootingReset(s) ==
    [s EXCEPT !.buffer = [i \in 1..BUFFER_SIZE |-> s.highest_point],
              !.pressed = FALSE,
              !.wooting = FALSE,
              !.buffer_pos = 0]

\* ADC readings fed to the rapid-trigger switch
WootingSamples ==
    {1390, 1400, 1450, 1500, 1560, 1590, 1600, 1605, 1620, 1650, 1700, 1710}

WootingInit ==
    /\ wp = WootingDefault
    /\ w_op = "init"
    /\ w_panic = FALSE

WootingDoSetup(reading) ==
    /\ ~w_panic
    /\ wp' = WootingSetup(wp, reading).state
    /\ w_op' = "setup"
    /\ UNCHANGED <<w_panic, overflow_checks>>
    /\ UNCHANGED <<codecVars, tableVars, digitalVars, engineVars, mouseVars, radioVars, comVars, switchVars, hwVars, lockVars, storageVars, boardVars, heKeysVars>>

WootingDoUpdateBuf(pos) ==
    /\ ~w_panic
    /\ wp' = WootingUpdateBuf(wp, pos, overflow_checks).state
    /\ w_panic' = WootingUpdateBuf(wp, pos, overflow_checks).panic
    /\ w_op' = "update_buf"
    /\ UNCHANGED overflow_checks
    /\ UNCHANGED <<codecVars, tableVars, digitalVars, engineVars, mouseVars, radioVars, comVars, switchVars, hwVars, lockVars, storageVars, boardVars, heKeysVars>>

WootingDoReset ==
    /\ ~w_panic
    /\ wp' = WootingReset(wp)
    /\ w_op' = "reset"
    /\ UNCHANGED <<w_panic, overflow_checks>>
    /\ UNCHANGED <<codecVars, tableVars, digitalVars, engineVars, mouseVars, radioVars, comVars, switchVars, hwVars, lockVars, storageVars, boardVars, heKeysVars>>

WootingNext ==
    \/ \E reading \in WootingSamples : WootingDoSetup(reading)
    \/ \E pos \in WootingSamples : WootingDoUpdateBuf(pos)
    \/ WootingDoReset

(***************************************************************************)
(* ReportCodes (scan_codes.rs) and the KeyCodes -> ReportCodes conversion. *)
(***************************************************************************)
None == <<>>
Some(x) == <<x>>

Modifier(code) == [kind |-> "Modifier", val |-> code]
Letter(code) == [kind |-> "Letter", val |-> code]
LayerToggle(layer) == [kind |-> "LayerToggle", val |-> layer]
Layer(layer) == [kind |-> "Layer", val |-> layer]
Sticky == [kind |-> "Sticky", val |-> 0]
MouseButton(code) == [kind |-> "MouseButton", val |-> code]
MouseX(code) == [kind |-> "MouseX", val |-> code]
MouseY(code) == [kind |-> "MouseY", val |-> code]
MouseScroll(code) == [kind |-> "MouseScroll", val |-> code]

\* `code.into()`
ReportCodeFrom(code) ==
    CASE code \in {"KeyboardLeftControl", "KeyboardLeftShift"}
            -> Modifier(KeyCodeAsU8(code))
      [] code = "Layer1" -> Layer(1)
      [] code = "Layer2" -> Layer(2)
      [] code = "LayerToggle1" -> LayerToggle(1)
      [] code = "LayerToggle2" -> LayerToggle(2)
      [] code = "MouseLeftClick" -> MouseButton(0)
      [] code = "MouseXPos" -> MouseX(5)
      [] code = "MouseXNeg" -> MouseX(-5)
      [] code = "MouseYPos" -> MouseY(5)
      [] code = "MouseScrollPos" -> MouseScroll(1)
      [] OTHER -> Letter(KeyCodeAsU8(code))

(***************************************************************************)
(* Storage (storage.rs): layer records by internal key.                    *)
(***************************************************************************)
KeyIdx == 0 .. NUM_KEYS - 1
LayerIdx == 0 .. NUM_LAYERS - 1

\* StorageKey::KeyScanCode{config_num, layer}.to_key()
ToKey(config_num, layer) ==
    (100 + ((NUM_LAYERS * config_num) % U16Mod) + (layer % U16Mod)) % U16Mod

\* get_item: the stored record, if any
GetItem(f, key) == IF key \in DOMAIN f THEN Some(f[key]) ELSE None

(***************************************************************************)
(* Keys (keys.rs).                                                         *)
(***************************************************************************)
\* Keys::default()
KeysDefault ==
    [codes         |-> [i \in KeyIdx |-> [l \in LayerIdx |-> ScanCodeDefault]],
     key_states    |-> [i \in KeyIdx |-> FALSE],
     indicator     |-> FALSE,
     current_layer |-> [i \in KeyIdx |-> None],
     config_num    |-> 0]

\* the loop of load_keys_from_storage from `layer` on
RECURSIVE LoadLoop(_, _, _, _)
LoadLoop(ks, config_num, layer, f) ==
    IF layer = NUM_LAYERS THEN [keys |-> ks, res |-> "Ok"]
    ELSE LET item == GetItem(f, ToKey(config_num, layer))
         IN  IF item = None
             THEN [keys |-> KeysDefault, res |-> "Err"]
             ELSE LoadLoop(
                    [ks EXCEPT !.codes =
                        [i \in KeyIdx |->
                            [ks.codes[i] EXCEPT ![layer] = item[1][i + 1]]]],
                    config_num, layer + 1, f)

\* Keys::load_keys_from_storage: the new Keys and the returned Result
LoadKeysFromStorage(ks, config_num, f) ==
    LoadLoop([ks EXCEPT !.config_num = config_num], config_num, 0, f)

\* capacity of the Vec<ReportCodes, 64> handed to get_keys
VEC_CAPACITY == 64
\* keys of one half of the split board
HALF_KEYS == 21

\* set.push(..).unwrap() for each code in turn
PushAll(set, codes) ==
    [set   |-> set \o codes,
     panic |-> Len(set) + Len(codes) > VEC_CAPACITY]

\* A wrong CombinedKey arm: no Sticky marker before the code.
PressedCodesNoSticky(cell, other_pressed) ==
    CASE cell.tag = "CombinedKey" ->
            IF other_pressed THEN <<ReportCodeFrom(cell.codes[2])>>
            ELSE <<ReportCodeFrom(cell.codes[1])>>
      [] OTHER -> [k \in 1..Len(cell.codes) |-> ReportCodeFrom(cell.codes[k])]

\* A wrong CombinedKey arm: the other key is never looked at.
PressedCodesAlone(cell, other_pressed) ==
    CASE cell.tag = "CombinedKey" -> <<Sticky, ReportCodeFrom(cell.codes[1])>>
      [] OTHER -> [k \in 1..Len(cell.codes) |-> ReportCodeFrom(cell.codes[k])]

\* the codes get_pressed_code pushes for a pressed cell
PressedCodes(cell, other_pressed) ==
    CASE cell.tag = "CombinedKey" ->
            IF other_pressed THEN <<Sticky, ReportCodeFrom(cell.codes[2])>>
            ELSE <<Sticky, ReportCodeFrom(cell.codes[1])>>
      [] OTHER -> [k \in 1..Len(cell.codes) |-> ReportCodeFrom(cell.codes[k])]

\* Keys::get_pressed_code
GetPressedCode(ks, index, layer, set, f) ==
    LET none == [keys |-> ks, set |-> set, result |-> "None",
                 load |-> "none", arg |-> None, panic |-> FALSE]
    IN  IF layer \notin LayerIdx THEN [none EXCEPT !.panic = TRUE]
        ELSE LET pressed == ks.key_states[index]
                 cell == ks.codes[index][layer]
             IN  IF ~pressed THEN none
                 ELSE IF cell.tag = "ChangeConfig"
                 THEN LET ld == LoadKeysFromStorage(ks, cell.n, f)
                      IN  [keys |-> ld.keys, set |-> set, result |-> "Function",
                           load |-> ld.res, arg |-> Some(cell.n), panic |-> FALSE]
                 ELSE IF cell.tag = "CombinedKey" /\ cell.n \notin KeyIdx
                 THEN [none EXCEPT !.panic = TRUE]
                 ELSE LET other == cell.tag = "CombinedKey" /\ ks.key_states[cell.n]
                          p == PushAll(set, PressedCodes(cell, other))
                      IN  [keys |-> ks, set |-> p.set, result |-> "Pressed",
                           load |-> "none", arg |-> None, panic |-> p.panic]

\* A wrong Function arm: the codes already emitted stay in the set.
FunctionArmKeepSet(ks, set) ==
    [keys |-> [ks EXCEPT !.key_states = [i \in KeyIdx |-> FALSE],
                         !.current_layer = [i \in KeyIdx |-> None]],
     set  |-> set]

\* A wrong Function arm: the held layers survive the reset.
FunctionArmKeepHeld(ks, set) ==
    [keys |-> [ks EXCEPT !.key_states = [i \in KeyIdx |-> FALSE]],
     set  |-> <<>>]

\* get_keys, PressResult::Function arm, up to the settle timer
FunctionArm(ks, set) ==
    [keys |-> [ks EXCEPT !.key_states = [i \in KeyIdx |-> FALSE],
                         !.current_layer = [i \in KeyIdx |-> None]],
     set  |-> <<>>]

\* the loop of get_keys from key i on
RECURSIVE GetKeysLoop(_, _, _, _, _)
GetKeysLoop(ks, layer, set, i, f) ==
    IF i = NUM_KEYS
    THEN [keys |-> ks, set |-> set, func |-> FALSE, load |-> "none",
          arg |-> None, panic |-> FALSE]
    ELSE LET l == IF ks.current_layer[i] # None THEN ks.current_layer[i][1]
                  ELSE layer
             r == GetPressedCode(ks, i, l, set, f)
         IN  IF r.panic
             THEN [keys |-> r.keys, set |-> r.set, func |-> FALSE,
                   load |-> "none", arg |-> None, panic |-> TRUE]
             ELSE IF r.result = "Function"
             THEN LET fa == FunctionArm(r.keys, r.set)
                  IN  [keys |-> fa.keys, set |-> fa.set, func |-> TRUE,
                       load |-> r.load, arg |-> r.arg, panic |-> FALSE]
             ELSE IF r.result = "Pressed"
             THEN GetKeysLoop([r.keys EXCEPT !.current_layer[i] = Some(l)],
                              layer, r.set, i + 1, f)
             ELSE GetKeysLoop([r.keys EXCEPT !.current_layer[i] = None],
                              layer, r.set, i + 1, f)

\* A wrong get_keys: every key is resolved afresh with the base layer.
GetKeysForgetHeld(ks, layer, set, f) ==
    GetKeysLoop([ks EXCEPT !.current_layer = [i \in KeyIdx |-> None]],
                layer, set, 0, f)

\* Keys::get_keys
GetKeys(ks, layer, set, f) == GetKeysLoop(ks, layer, set, 0, f)

\* the settle delay of get_keys, in ms
SETTLE_MS == 500

(***************************************************************************)
(* Report (report.rs).                                                     *)
(***************************************************************************)
\* set_bit(&mut num, 1, pos)
SetBit(num, pos) ==
    IF (num \div (2 ^ pos)) % 2 = 1 THEN num ELSE num + 2 ^ pos

StickNone == <<"None">>
StickPressed == <<"Pressed">>
Stick(val) == <<"Stick", val>>

\* Report::new
ReportNew ==
    [key_report    |-> [modifier |-> 0, nkro_keycodes |-> {}],
     current_layer |-> 0,
     reset_layer   |-> 0,
     stick         |-> StickNone]

\* the locals of generate_report before the loop over pressed_keys
NewTick ==
    [modifier |-> 0, nkro_keycodes |-> {}, pressed |-> FALSE, stick |-> FALSE,
     toggle |-> FALSE, new_layer |-> None]

\* one iteration of the loop over pressed_keys
MatchKey(acc, key) ==
    CASE key.kind = "Modifier" ->
            [acc EXCEPT !.modifier = SetBit(acc.modifier, key.val % 8)]
      [] key.kind = "Letter" ->
            [acc EXCEPT !.nkro_keycodes = @ \cup {key.val}, !.pressed = TRUE]
      [] key.kind = "LayerToggle" ->
            [acc EXCEPT !.new_layer = Some(key.val), !.toggle = TRUE]
      [] key.kind = "Layer" ->
            IF acc.new_layer = None THEN [acc EXCEPT !.new_layer = Some(key.val)]
            ELSE acc
      [] key.kind = "Sticky" -> [acc EXCEPT !.stick = TRUE]
      [] key.kind \in {"MouseButton", "MouseX", "MouseY", "MouseScroll"} -> acc

\* the loop over pressed_keys from position k on
RECURSIVE MatchKeys(_, _, _)
MatchKeys(acc, set, k) ==
    IF k > Len(set) THEN acc ELSE MatchKeys(MatchKey(acc, set[k]), set, k + 1)

\* the stick state machine: the new State and the tick's modifier byte
StickStep(st, stick, pressed, modifier) ==
    IF stick
    THEN IF pressed
         THEN [stick |-> StickPressed, modifier |-> modifier]
         ELSE IF st = StickPressed
         THEN [stick |-> st, modifier |-> modifier]
         ELSE IF modifier # 0
         THEN [stick |-> Stick(modifier), modifier |-> modifier]
         ELSE [stick |-> st, modifier |-> modifier]
    ELSE IF st[1] = "Stick"
         THEN IF pressed THEN [stick |-> StickNone, modifier |-> st[2]]
              ELSE [stick |-> st, modifier |-> modifier]
         ELSE [stick |-> StickNone, modifier |-> modifier]

\* A wrong layer commit: a Layer signal is remembered like a LayerToggle.
CommitLayerKeep(r, new_layer, toggle) ==
    IF new_layer # None
    THEN [r EXCEPT !.reset_layer = new_layer[1], !.current_layer = new_layer[1]]
    ELSE [r EXCEPT !.current_layer = r.reset_layer]

\* the layer commit at the end of generate_report
CommitLayer(r, new_layer, toggle) ==
    IF new_layer # None
    THEN [r EXCEPT !.reset_layer = IF toggle THEN new_layer[1] ELSE @,
                   !.current_layer = new_layer[1]]
    ELSE [r EXCEPT !.current_layer = r.reset_layer]

\* generate_report after get_keys: the new Report and whether a keyboard
\* report is returned
ReportTail(r, set) ==
    LET acc == MatchKeys(NewTick, set, 1)
        st  == StickStep(r.stick, acc.stick, acc.pressed, acc.modifier)
        new_key_report == [modifier |-> st.modifier,
                           nkro_keycodes |-> acc.nkro_keycodes]
        r1  == CommitLayer(r, acc.new_layer, acc.toggle)
    IN  [report   |-> [r1 EXCEPT !.stick = st.stick,
                                 !.key_report = new_key_report],
         returned |-> r.key_report # new_key_report]

\* what a tick's code set signals: a Sticky marker, a real press, its
\* modifier bits, its layer signals
TickSticky(set) == \E k \in 1..Len(set) : set[k].kind = "Sticky"
TickPressed(set) == \E k \in 1..Len(set) : set[k].kind = "Letter"
TickModifierBits(set) ==
    {set[k].val % 8 : k \in {j \in 1..Len(set) : set[j].kind = "Modifier"}}
TickToggles(set) == {k \in 1..Len(set) : set[k].kind = "LayerToggle"}
TickLayers(set) == {k \in 1..Len(set) : set[k].kind = "Layer"}
\* the last LayerToggle of the tick
TickLastToggle(set) ==
    set[CHOOSE k \in TickToggles(set) : \A j \in TickToggles(set) : j <= k].val

\* the byte with exactly the bits of the set on
RECURSIVE ByteOf(_)
ByteOf(bits) ==
    IF bits = {} THEN 0
    ELSE LET b == CHOOSE x \in bits : TRUE IN 2 ^ b + ByteOf(bits \ {b})

\* the bits of a byte that are on
BitsOf(byte) == {b \in 0..7 : (byte \div (2 ^ b)) % 2 = 1}

(***************************************************************************)
(* Stored profiles and sensor readings the engine is run on.               *)
(***************************************************************************)
\* cell (key i, layer l) of stored profile c
CellAt(c, i, l) ==
    CASE c = 0 /\ l = 0 /\ i = 0 -> Single("KeyboardAa")
      [] c = 0 /\ l = 0 /\ i = 1 -> CombinedKey(0, "KeyboardLeftShift", "Layer1")
      [] c = 0 /\ l = 0 /\ i = 2 -> Single("KeyboardLeftControl")
      [] c = 0 /\ l = 1 /\ i = 0 -> Single("Layer2")
      [] c = 0 /\ l = 1 /\ i = 1 -> ChangeConfig(1)
      [] c = 0 /\ l = 1 /\ i = 2 -> Single("LayerToggle1")
      [] c = 0 /\ l = 2 /\ i = 0 -> Double("KeyboardLeftControl", "KeyboardBb")
      [] c = 0 /\ l = 2 /\ i = 1 -> Triple("KeyboardLeftShift", "KeyboardAa", "KeyboardBb")
      [] c = 0 /\ l = 2 /\ i = 2 -> Single("LayerToggle2")
      [] c = 1 /\ l = 0 /\ i = 0 -> Single("Layer1")
      [] c = 1 /\ l = 0 /\ i = 1 -> Single("Layer2")
      [] c = 1 /\ l = 0 /\ i = 2 -> Single("LayerToggle2")
      [] c = 1 /\ l = 1 /\ i = 0 -> ChangeConfig(0)
      [] c = 1 /\ l = 1 /\ i = 1 -> CombinedKey(2, "KeyboardLeftControl", "KeyboardLeftShift")
      [] c = 1 /\ l = 1 /\ i = 2 -> Single("KeyboardAa")
      [] c = 1 /\ l = 2 /\ i = 0 -> ChangeConfig(7)
      [] c = 1 /\ l = 2 /\ i = 1 -> Single("KeyboardBb")
      [] c = 1 /\ l = 2 /\ i = 2 -> Single("LayerToggle1")
      [] OTHER -> ScanCodeDefault

\* the ScanCodeLayerStorage record of layer l of profile c
LayerRecord(c, l) == [k \in 1..NUM_KEYS |-> CellAt(c, k - 1, l)]

\* the flash holding the records of the given <<profile, layer>> pairs
FlashWith(stored) ==
    [key \in {ToKey(cl[1], cl[2]) : cl \in stored} |->
        LET cl == CHOOSE x \in stored : ToKey(x[1], x[2]) = key
        IN  LayerRecord(cl[1], cl[2])]

ConfigIdx == 0 .. NUM_CONFIGS - 1
\* every profile stored; the last layer of all but profile 0 missing; only
\* profile 0 stored
FlashImages ==
    { FlashWith(ConfigIdx \X LayerIdx),
      FlashWith({cl \in ConfigIdx \X LayerIdx : cl[1] = 0 \/ cl[2] < NUM_LAYERS - 1}),
      FlashWith({0} \X LayerIdx) }

\* TRUE when every layer of profile c is stored
ProfileStored(f, c) == \A l \in LayerIdx : ToKey(c, l) \in DOMAIN f

\* the code table of stored profile c
StoredTable(f, c) ==
    [i \in KeyIdx |-> [l \in LayerIdx |-> f[ToKey(c, l)][i + 1]]]

(***************************************************************************)
(* Engine actions.                                                         *)
(***************************************************************************)
EngineInit ==
    /\ keys = KeysDefault
    /\ report = ReportNew
    /\ pressed_keys = <<>>
    /\ returned_report = FALSE
    /\ e_op = "init"
    /\ settle_elapsed = 0
    /\ load_res = "none"
    /\ e_arg = None
    /\ e_ret = "none"
    /\ e_panic = FALSE
    /\ h_latch = 0
    /\ h_toggled = 0
    /\ h_pressed = [i \in KeyIdx |-> FALSE]
    /\ h_first = [i \in KeyIdx |-> None]

\* generate_report from the end of get_keys to its return
FinishReport(set) ==
    /\ report' = ReportTail(report, set).report
    /\ returned_report' = ReportTail(report, set).returned
    /\ h_latch' = IF TickSticky(set) /\ ~TickPressed(set)
                     /\ TickModifierBits(set) # {}
                  THEN ByteOf(TickModifierBits(set))
                  ELSE IF TickPressed(set) /\ ~TickSticky(set) THEN 0
                  ELSE h_latch
    /\ h_toggled' = IF TickToggles(set) # {} THEN TickLastToggle(set)
                    ELSE h_toggled
    /\ e_ret' = "unit"

\* a caller runs keys.load_keys_from_storage(config_num)
LoadProfile(config_num) ==
    /\ ~e_panic
    /\ e_op # "settle"
    /\ LET ld == LoadKeysFromStorage(keys, config_num, flash)
       IN  /\ keys' = ld.keys
           /\ load_res' = ld.res
           /\ e_ret' = ld.res
    /\ e_arg' = Some(config_num)
    /\ e_op' = "load"
    /\ UNCHANGED <<report, flash, pressed_keys, returned_report, settle_elapsed,
                   e_panic, h_latch, h_toggled, h_pressed, h_first>>
    /\ UNCHANGED <<codecVars, tableVars, digitalVars, wootingVars, mouseVars, radioVars, comVars, switchVars, hwVars, lockVars, storageVars, boardVars, heKeysVars>>

\* Report::generate_report on the given sensor readings, up to its return
\* or to the settle timer of get_keys
GenerateReport(readings) ==
    /\ ~e_panic
    /\ e_op # "settle"
    /\ LET ks == [keys EXCEPT !.key_states = readings]
           gk == GetKeys(ks, report.current_layer, <<>>, flash)
       IN  /\ keys' = gk.keys
           /\ pressed_keys' = gk.set
           /\ e_panic' = gk.panic
           /\ load_res' = gk.load
           /\ e_arg' = gk.arg
           /\ settle_elapsed' = 0
           /\ h_pressed' = readings
           /\ h_first' = [i \in KeyIdx |->
                 IF ~readings[i] THEN None
                 ELSE IF h_pressed[i] THEN h_first[i]
                 ELSE IF keys.current_layer[i] # None THEN keys.current_layer[i]
                 ELSE Some(report.current_layer)]
           /\ IF gk.panic
              THEN /\ e_op' = "report"
                   /\ e_ret' = "panic"
                   /\ UNCHANGED <<report, returned_report, h_latch, h_toggled>>
              ELSE IF gk.func
              THEN /\ e_op' = "settle"
                   /\ e_ret' = "pending"
                   /\ UNCHANGED <<report, returned_report, h_latch, h_toggled>>
              ELSE /\ e_op' = "report"
                   /\ FinishReport(gk.set)
    /\ UNCHANGED flash
    /\ UNCHANGED <<codecVars, tableVars, digitalVars, wootingVars, mouseVars, radioVars, comVars, switchVars, hwVars, lockVars, storageVars, boardVars, heKeysVars>>

\* time passes while get_keys waits on Timer::after_millis(500)
SettleWait ==
    /\ e_op = "settle"
    /\ settle_elapsed < SETTLE_MS
    /\ settle_elapsed' = settle_elapsed + TimeStep
    /\ UNCHANGED <<keys, report, flash, pressed_keys, returned_report, e_op,
                   load_res, e_arg, e_ret, e_panic, h_latch, h_toggled, h_pressed,
                   h_first>>
    /\ UNCHANGED <<codecVars, tableVars, digitalVars, wootingVars, mouseVars, radioVars, comVars, switchVars, hwVars, lockVars, storageVars, boardVars, heKeysVars>>

\* the timer fires: get_keys breaks out of its loop and generate_report
\* runs to its return
SettleDone ==
    /\ e_op = "settle"
    /\ settle_elapsed >= SETTLE_MS
    /\ e_op' = "report"
    /\ FinishReport(pressed_keys)
    /\ UNCHANGED <<keys, flash, pressed_keys, settle_elapsed, load_res, e_arg,
                   e_panic, h_pressed, h_first>>
    /\ UNCHANGED <<codecVars, tableVars, digitalVars, wootingVars, mouseVars, radioVars, comVars, switchVars, hwVars, lockVars, storageVars, boardVars, heKeysVars>>

EngineNext ==
    \/ \E config_num \in ConfigIdx : LoadProfile(config_num)
    \/ \E readings \in [KeyIdx -> BOOLEAN] : GenerateReport(readings)
    \/ SettleWait
    \/ SettleDone

(***************************************************************************)
(* Mouse side of Report (report.rs): MouseDelta gates, the mouse arms of   *)
(* generate_report and the mouse report diffing.  Instants are kept        *)
(* relative to the current tick: initial_press as the ms elapsed since it, *)
(* next_tick as the ms still to go (negative once it has passed).          *)
(***************************************************************************)
TERM0 == 1000000
TERM1 == 500000
INITIAL_DELAY_MS == 50

\* MouseDelta::new
MouseDeltaNew ==
    [initial_press |-> None, next_tick |-> 0, check_state |-> FALSE,
     res |-> FALSE]

\* 500000 / (((term0 * x.pow(2)) / (x + term1)) + 10000), with the quotient
\* term0*x^2 / (x+term1) written as r*x^2 - ceil(r*x^3 / (x+term1)) for
\* r = term0/term1 so that no intermediate value exceeds 32 bits
ThrottleMs(x) ==
    LET r == TERM0 \div TERM1
        q == r * x * x - ((r * x * x * x + x + TERM1 - 1) \div (x + TERM1))
    IN  500000 \div (q + 10000)

\* dt ms pass between two reads of Instant::now()
GateAfter(g, dt) ==
    IF g.initial_press = None THEN g
    ELSE [g EXCEPT !.initial_press = Some(g.initial_press[1] + dt),
                   !.next_tick = IF g.next_tick - dt < 0 THEN -1
                                 ELSE g.next_tick - dt]

\* MouseDelta::update_state
MouseUpdateState(g) ==
    IF g.initial_press # None
    THEN IF g.next_tick < 0
         THEN [g EXCEPT !.next_tick = ThrottleMs(g.initial_press[1]),
                        !.res = TRUE]
         ELSE [g EXCEPT !.res = FALSE]
    ELSE [g EXCEPT !.initial_press = Some(0),
                   !.next_tick = INITIAL_DELAY_MS,
                   !.res = TRUE]

\* MouseDelta::check: the gate afterwards; its res field is the returned bool
MouseCheck(g) ==
    IF g.check_state THEN g
    ELSE [MouseUpdateState(g) EXCEPT !.check_state = TRUE]

\* MouseDelta::reset (a gate back in idle no longer reads next_tick)
MouseReset(g) ==
    [initial_press |-> IF ~g.check_state THEN None ELSE g.initial_press,
     next_tick     |-> IF ~g.check_state THEN 0 ELSE g.next_tick,
     check_state   |-> FALSE,
     res           |-> FALSE]

\* MouseReport::default()
MouseReportDefault == [buttons |-> 0, x |-> 0, y |-> 0, wheel |-> 0]

\* the mouse fields Report::new sets
MouseNew ==
    [mouse_report |-> MouseReportDefault,
     mouse_delta  |-> MouseDeltaNew,
     scroll_delta |-> MouseDeltaNew]

\* one iteration of the loop over pressed_keys, mouse arms; m holds
\* new_mouse_report and the two gates (the deltas of the tables used here
\* stay far inside i8)
MouseMatchKey(m, key) ==
    CASE key.kind = "MouseButton" ->
            [m EXCEPT !.new.buttons = SetBit(m.new.buttons, key.val % 8)]
      [] key.kind = "MouseX" ->
            LET g == MouseCheck(m.mouse_delta)
            IN  [m EXCEPT !.mouse_delta = g,
                          !.new.x = IF g.res THEN @ + key.val ELSE @]
      [] key.kind = "MouseY" ->
            LET g == MouseCheck(m.mouse_delta)
            IN  [m EXCEPT !.mouse_delta = g,
                          !.new.y = IF g.res THEN @ + key.val ELSE @]
      [] key.kind = "MouseScroll" ->
            LET g == MouseCheck(m.scroll_delta)
            IN  [m EXCEPT !.scroll_delta = g,
                          !.new.wheel = IF g.res THEN @ + key.val ELSE @]
      [] OTHER -> m

RECURSIVE MouseMatchKeys(_, _, _)
MouseMatchKeys(m, set, k) ==
    IF k > Len(set) THEN m
    ELSE MouseMatchKeys(MouseMatchKey(m, set[k]), set, k + 1)

\* A wrong mouse diff: any difference from the stored report, nothing else.
MouseReportDiffersWhole(last, new) == last # new

\* the condition under which generate_report returns a mouse report
MouseReportDiffers(last, new) ==
    \/ last.buttons # new.buttons
    \/ new.x # 0
    \/ new.y # 0
    \/ new.wheel # 0

\* generate_report after get_keys, mouse side, dt ms after the previous
\* tick: the new mouse fields, the tick's new_mouse_report and whether a
\* mouse report is returned
MouseTail(ms, set, dt) ==
    LET m0 == [new          |-> MouseReportDefault,
               mouse_delta  |-> GateAfter(ms.mouse_delta, dt),
               scroll_delta |-> GateAfter(ms.scroll_delta, dt)]
        m1 == MouseMatchKeys(m0, set, 1)
        ret == MouseReportDiffers(ms.mouse_report, m1.new)
    IN  [mouse |-> [mouse_report |-> IF ret THEN m1.new ELSE ms.mouse_report,
                    mouse_delta  |-> MouseReset(m1.mouse_delta),
                    scroll_delta |-> MouseReset(m1.scroll_delta)],
         new_mouse_report |-> m1.new,
         returned |-> ret]

\* cell (key i, layer l) of the mouse key table
MouseCellAt(i, l) ==
    CASE i = 0 -> Double("MouseLeftClick", "MouseYPos")
      [] i = 1 -> Double("MouseXPos", "MouseScrollPos")
      [] i = 2 -> Double("MouseXNeg", "KeyboardAa")
      [] OTHER -> ScanCodeDefault

\* Keys::default() followed by set_code for every cell of the mouse table
MouseKeys ==
    [KeysDefault EXCEPT
        !.codes = [i \in KeyIdx |-> [l \in LayerIdx |-> MouseCellAt(i, l)]]]

TickTimes == {ShortTickMs, LongTickMs}

\* ms a gate has been armed for (0 when idle)
GateAge(g) == IF g.initial_press = None THEN 0 ELSE g.initial_press[1]

MouseInit ==
    /\ m_keys = MouseKeys
    /\ m_report = ReportNew
    /\ m_mouse = MouseNew
    /\ m_out = [key |-> FALSE, mouse |-> FALSE,
                new_key_report |-> ReportNew.key_report,
                new_mouse_report |-> MouseReportDefault]

\* Report::generate_report on the mouse key table, dt ms after the previous
\* tick
MouseGenerateReport(readings, dt) ==
    /\ GateAge(m_mouse.mouse_delta) + dt <= MaxHoldMs
    /\ GateAge(m_mouse.scroll_delta) + dt <= MaxHoldMs
    /\ LET ks == [m_keys EXCEPT !.key_states = readings]
           gk == GetKeys(ks, m_report.current_layer, <<>>, flash)
           kt == ReportTail(m_report, gk.set)
           mt == MouseTail(m_mouse, gk.set, dt)
       IN  /\ m_keys' = gk.keys
           /\ m_report' = kt.report
           /\ m_mouse' = mt.mouse
           /\ m_out' = [key |-> kt.returned, mouse |-> mt.returned,
                        new_key_report |-> kt.report.key_report,
                        new_mouse_report |-> mt.new_mouse_report]
    /\ UNCHANGED <<codecVars, tableVars, digitalVars, wootingVars, engineVars, radioVars, comVars, switchVars, hwVars, lockVars, storageVars, boardVars, heKeysVars>>

MouseNext ==
    \E readings \in [KeyIdx -> BOOLEAN], dt \in TickTimes :
        MouseGenerateReport(readings, dt)

(***************************************************************************)
(* Radio link: tychocs/src/radio (packet.rs, mod.rs, inner_radio.rs,        *)
(* radio.rs).  One central and one peripheral share the air; each side has  *)
(* its own SEND_CHANNEL and RECV_CHANNEL.                                   *)
(***************************************************************************)
\* capacity of SEND_CHANNEL and RECV_CHANNEL (5 in the source)
NUM_PACKETS == 2
\* sends of one packet before the sender gives up (3 in the source)
NUM_RETRIES == 2
\* receive slots of the central between two send slots (500 in the source)
MAX_CONNECTION_EVENTS == 2
\* missed events before a side returns to Advertisement (5 in the source)
MAX_MISSED_EVENTS == 2
\* packets the application of the central, of the peripheral hands to
\* send_packet; the peripheral's application on the lossless channel
MaxCentralSends == 1
MaxPerpSends == 3
MaxPerpSendsLossless == 1
\* logical transmit addresses of the two sides
CentralTxAddr == 0
PerpTxAddr == 2
META_SIZE == 3
\* length of the key-state payload the application sends
APP_LEN == 4

Sides == {"central", "perp"}
Peer(side) == IF side = "central" THEN "perp" ELSE "central"
TxAddr(side) == IF side = "central" THEN CentralTxAddr ELSE PerpTxAddr
MaxSends(side) ==
    IF side = "central" THEN MaxCentralSends
    ELSE IF channel # "lossy" THEN MaxPerpSendsLossless
    ELSE MaxPerpSends

\* Packet::default(): every byte is META_SIZE - 1, so the length is 0, the id
\* is 2, the type byte is 2 (Advertise) and the payload bytes are 2.  addr is
\* the logical address the packet is transmitted on, which the receiver reads
\* back from RXMATCH; val is the first payload byte.
PacketDefault ==
    [type |-> "Advertise", id |-> META_SIZE - 1, len |-> 0,
     val |-> META_SIZE - 1, addr |-> 0]

\* the packet as it is seen by the receiver: ReceiveFuture stores RXMATCH,
\* the logical address of the transmitter, in packet.addr
OnAir(p, side) == [p EXCEPT !.addr = TxAddr(side)]

\* the packet the application builds: set_len / copy_from_slice of a key
\* state whose first byte is v
AppPacket(v) == [PacketDefault EXCEPT !.len = APP_LEN, !.val = v]

\* Channel::try_send, then try_receive and try_send again when it failed:
\* the mailbox after a packet is pushed by the radio task
RecvPushDropNewest(q, p) == IF Len(q) < NUM_PACKETS THEN Append(q, p) ELSE q

RecvPush(q, p) ==
    IF Len(q) < NUM_PACKETS THEN Append(q, p) ELSE Append(Tail(q), p)

\* condition of the central's receive in ConnectedReceive
CentralDataCond(c, p) ==
    p.type = "Data" /\ p.addr = c.addr /\ p.id # c.rx_id

\* condition of the central's receive after a send
CentralAckCond(c, p) == p.type = "Ack" /\ p.addr = c.addr

\* condition of the peripheral's receive in ConnectedReceive
PerpDataCond(p) == p.type = "Data" /\ p.id # PerpTxAddr

\* condition of the peripheral's receive after a send of the packet with id
\* id; packet[0] of an empty packet is out of bounds
PerpAckCond(id, p) ==
    p.type = "Ack" /\ p.id = id /\ p.len > 0 /\ p.val = PerpTxAddr

\* condition of the peripheral's receive after an Advertise
PerpEstablishCond(p) == p.type = "EstablishConnection" /\ p.id = PerpTxAddr

CentralConnectionDefault ==
    [state |-> "Advertisement", num_events |-> 0, num_miss_events |-> 0,
     addr |-> 0, rx_id |-> 0]

RadioPerpNew ==
    [state |-> "Advertisement", tx_id |-> 0, num_missed_events |-> 0]

\* a packet transmitted by the other side is on the air
PeerPacketOnAir(side) == air # None /\ air[1].addr = TxAddr(Peer(side))

\* the radio of the side can receive the packet on the air
Hears(side) == channel # "dead" /\ PeerPacketOnAir(side)

OwnPacketOnAir(side) == air # None /\ air[1].addr = TxAddr(side)

\* the side is inside receive_with_conditions
Listening(side) ==
    IF side = "central"
    THEN \/ cen_pc = "await_ack"
         \/ cen_pc = "idle" /\ cen.state \in {"Advertisement", "ConnectedReceive"}
    ELSE \/ per_pc \in {"adv_wait", "await_ack"}
         \/ per_pc = "idle" /\ per.state = "ConnectedReceive"

\* the timer of receive_with_conditions wins the select.  On a lossless
\* channel it wins only when no packet of the other side is on the air and
\* the side's own packet is not about to be received by the other side.
MayTimeout(side) ==
    \/ channel \in {"lossy", "failing", "dead"}
    \/ /\ ~PeerPacketOnAir(side)
       /\ ~(OwnPacketOnAir(side) /\ Listening(Peer(side)))

\* the transmission of the side has ended when its timer fires
AirAfterTimeout(side) == IF OwnPacketOnAir(side) THEN None ELSE air

\* RECV_CHANNEL of the side and its arrival log after the radio task pushes p
PushReceived(side, p) ==
    /\ RECV_CHANNEL' = [RECV_CHANNEL EXCEPT ![side] = RecvPush(@, p)]
    /\ h_log' = [h_log EXCEPT ![side] = Append(@, p.val)]
    /\ h_evicted' = [h_evicted EXCEPT ![side] =
                        IF Len(RECV_CHANNEL[side]) = NUM_PACKETS
                        THEN @ + 1 ELSE @]

\* CentralConnection::handle_connection, Advertisement
CentralAdvertisement ==
    /\ cen.state = "Advertisement"
    /\ cen_pc = "idle"
    /\ \/ /\ Hears("central")
          /\ LET packet == air[1] IN
             IF packet.type = "Advertise"
             THEN /\ air' = Some(OnAir([PacketDefault EXCEPT
                                            !.type = "EstablishConnection",
                                            !.id = packet.addr], "central"))
                  /\ cen' = [cen EXCEPT !.state = "ConnectedReceive",
                                        !.addr = packet.addr,
                                        !.num_events = 0,
                                        !.num_miss_events = 0]
                  /\ h_last' = [h_last EXCEPT !["central"] = None]
                  /\ h_sent' = [h_sent EXCEPT !["central"] = None]
             ELSE /\ air' = None
                  /\ UNCHANGED <<cen, h_last, h_sent>>
       \/ /\ MayTimeout("central")
          /\ air' = AirAfterTimeout("central")
          /\ UNCHANGED <<cen, h_last, h_sent>>
    /\ UNCHANGED <<cen_pc, cen_try, cen_pkt, per, per_pc, per_try, per_pkt,
                   SEND_CHANNEL, RECV_CHANNEL, app_wait, app_sent, channel,
                   h_log, h_evicted, h_taken, h_miss>>
    /\ UNCHANGED <<codecVars, tableVars, digitalVars, wootingVars, engineVars, mouseVars, comVars, switchVars, hwVars, lockVars, storageVars, boardVars, heKeysVars>>

\* the end of a receive slot of the central
CentralCountEvent(c) ==
    IF c.num_events + 1 >= MAX_CONNECTION_EVENTS
    THEN [c EXCEPT !.state = "ConnectedSend", !.num_events = 0]
    ELSE [c EXCEPT !.num_events = @ + 1]

\* CentralConnection::handle_connection, ConnectedReceive
CentralConnectedReceive ==
    /\ cen.state = "ConnectedReceive"
    /\ cen_pc = "idle"
    /\ \/ /\ Hears("central")
          /\ LET packet == air[1] IN
             IF CentralDataCond(cen, packet)
             THEN /\ air' = Some(OnAir([PacketDefault EXCEPT
                                            !.id = packet.id,
                                            !.type = "Ack",
                                            !.len = 1,
                                            !.val = cen.addr], "central"))
                  /\ PushReceived("central", packet)
                  /\ cen' = CentralCountEvent([cen EXCEPT !.rx_id = packet.id])
                  /\ h_last' = [h_last EXCEPT !["central"] = Some(packet)]
             ELSE /\ air' = None
                  /\ UNCHANGED <<cen, RECV_CHANNEL, h_log, h_evicted, h_last>>
       \/ /\ MayTimeout("central")
          /\ air' = AirAfterTimeout("central")
          /\ cen' = CentralCountEvent(cen)
          /\ UNCHANGED <<RECV_CHANNEL, h_log, h_evicted, h_last>>
    /\ UNCHANGED <<cen_pc, cen_try, cen_pkt, per, per_pc, per_try, per_pkt,
                   SEND_CHANNEL, app_wait, app_sent, channel, h_taken, h_sent, h_miss>>
    /\ UNCHANGED <<codecVars, tableVars, digitalVars, wootingVars, engineVars, mouseVars, comVars, switchVars, hwVars, lockVars, storageVars, boardVars, heKeysVars>>

\* CentralConnection::handle_connection, ConnectedSend, up to the first send
CentralConnectedSend ==
    /\ cen.state = "ConnectedSend"
    /\ cen_pc = "idle"
    /\ LET q == SEND_CHANNEL["central"]
           taken == IF q # <<>> THEN Head(q) ELSE PacketDefault
           packet == [taken EXCEPT !.type = "Data", !.id = cen.addr]
       IN  /\ SEND_CHANNEL' = [SEND_CHANNEL EXCEPT !["central"] =
                                  IF q # <<>> THEN Tail(q) ELSE q]
           /\ cen_pkt' = packet
           /\ air' = Some(OnAir(packet, "central"))
           /\ h_sent' = [h_sent EXCEPT !["central"] = Some(packet.id)]
    /\ cen_pc' = "await_ack"
    /\ cen_try' = 1
    /\ UNCHANGED <<cen, per, per_pc, per_try, per_pkt, RECV_CHANNEL, app_wait,
                   app_sent, channel, h_last, h_log, h_evicted, h_taken, h_miss>>
    /\ UNCHANGED <<codecVars, tableVars, digitalVars, wootingVars, engineVars, mouseVars, comVars, switchVars, hwVars, lockVars, storageVars, boardVars, heKeysVars>>

\* a central that starts counting again instead of scanning when the
\* threshold of missed events is reached
CentralSendDoneNeverScans(c, ack_received) ==
    LET missed == IF ack_received THEN 0 ELSE c.num_miss_events + 1
    IN  [c EXCEPT !.num_miss_events = IF missed >= MAX_MISSED_EVENTS
                                      THEN 0 ELSE missed,
                  !.state = "ConnectedReceive"]

\* the central after the retry loop of ConnectedSend
CentralSendDone(c, ack_received) ==
    LET missed == IF ack_received THEN 0 ELSE c.num_miss_events + 1
    IN  [c EXCEPT !.num_miss_events = missed,
                  !.state = IF missed >= MAX_MISSED_EVENTS
                            THEN "Advertisement" ELSE "ConnectedReceive"]

\* CentralConnection::handle_connection, ConnectedSend, the wait for the Ack
\* and the retries
CentralAwaitAck ==
    /\ cen_pc = "await_ack"
    /\ \/ /\ Hears("central")
          /\ air' = None
          /\ IF CentralAckCond(cen, air[1])
             THEN /\ cen' = CentralSendDone(cen, TRUE)
                  /\ cen_pc' = "idle"
                  /\ cen_try' = 0
                  /\ cen_pkt' = PacketDefault
             ELSE UNCHANGED <<cen, cen_pc, cen_try, cen_pkt>>
       \/ /\ MayTimeout("central")
          /\ IF cen_try < NUM_RETRIES
             THEN /\ air' = Some(OnAir(cen_pkt, "central"))
                  /\ cen_try' = cen_try + 1
                  /\ UNCHANGED <<cen, cen_pc, cen_pkt>>
             ELSE /\ air' = AirAfterTimeout("central")
                  /\ cen' = CentralSendDone(cen, FALSE)
                  /\ cen_pc' = "idle"
                  /\ cen_try' = 0
                  /\ cen_pkt' = PacketDefault
    /\ UNCHANGED <<per, per_pc, per_try, per_pkt, SEND_CHANNEL, RECV_CHANNEL,
                   app_wait, app_sent, channel, h_last, h_log, h_evicted, h_taken, h_sent, h_miss>>
    /\ UNCHANGED <<codecVars, tableVars, digitalVars, wootingVars, engineVars, mouseVars, comVars, switchVars, hwVars, lockVars, storageVars, boardVars, heKeysVars>>

\* RadioPerp::run, Advertisement, the first send of the Advertise packet
PerpAdvertisement ==
    /\ per.state = "Advertisement"
    /\ per_pc = "idle"
    /\ air' = Some(OnAir([PacketDefault EXCEPT !.type = "Advertise"], "perp"))
    /\ per_pc' = "adv_wait"
    /\ per_try' = 1
    /\ UNCHANGED <<cen, cen_pc, cen_try, cen_pkt, per, per_pkt, SEND_CHANNEL,
                   RECV_CHANNEL, app_wait, app_sent, channel, h_last,
                   h_log, h_evicted, h_taken, h_sent, h_miss>>
    /\ UNCHANGED <<codecVars, tableVars, digitalVars, wootingVars, engineVars, mouseVars, comVars, switchVars, hwVars, lockVars, storageVars, boardVars, heKeysVars>>

\* RadioPerp::run, Advertisement, the wait for EstablishConnection, the
\* retries and the ADVERTISEMENT_TIMEOUT that restarts the state
PerpAwaitEstablish ==
    /\ per_pc = "adv_wait"
    /\ \/ /\ Hears("perp")
          /\ air' = None
          /\ IF PerpEstablishCond(air[1])
             THEN /\ per' = [per EXCEPT !.state = "ConnectedSend",
                                        !.tx_id = 0,
                                        !.num_missed_events = 0]
                  /\ per_pc' = "idle"
                  /\ per_try' = 0
                  /\ h_last' = [h_last EXCEPT !["perp"] = None]
                  /\ h_sent' = [h_sent EXCEPT !["perp"] = None]
                  /\ h_miss' = 0
             ELSE UNCHANGED <<per, per_pc, per_try, h_last, h_sent, h_miss>>
       \/ /\ MayTimeout("perp")
          /\ IF per_try < NUM_RETRIES
             THEN /\ air' = Some(OnAir([PacketDefault EXCEPT
                                            !.type = "Advertise"], "perp"))
                  /\ per_try' = per_try + 1
                  /\ UNCHANGED per_pc
             ELSE /\ air' = AirAfterTimeout("perp")
                  /\ per_try' = 0
                  /\ per_pc' = "idle"
          /\ UNCHANGED <<per, h_last, h_sent, h_miss>>
    /\ UNCHANGED <<cen, cen_pc, cen_try, cen_pkt, per_pkt, SEND_CHANNEL,
                   RECV_CHANNEL, app_wait, app_sent, channel, h_log,
                   h_evicted, h_taken>>
    /\ UNCHANGED <<codecVars, tableVars, digitalVars, wootingVars, engineVars, mouseVars, comVars, switchVars, hwVars, lockVars, storageVars, boardVars, heKeysVars>>

\* RadioPerp::run, ConnectedReceive
PerpConnectedReceive ==
    /\ per.state = "ConnectedReceive"
    /\ per_pc = "idle"
    /\ \/ /\ Hears("perp")
          /\ LET packet == air[1] IN
             IF PerpDataCond(packet)
             THEN /\ air' = Some(OnAir([PacketDefault EXCEPT
                                            !.id = packet.id,
                                            !.type = "Ack"], "perp"))
                  /\ IF packet.len # 0
                     THEN PushReceived("perp", packet)
                     ELSE UNCHANGED <<RECV_CHANNEL, h_log, h_evicted>>
                  /\ per' = [per EXCEPT !.num_missed_events = 0]
                  /\ h_last' = [h_last EXCEPT !["perp"] = Some(packet)]
                  /\ h_miss' = 0
             ELSE /\ air' = None
                  /\ UNCHANGED <<per, RECV_CHANNEL, h_log, h_evicted, h_last, h_miss>>
       \/ /\ MayTimeout("perp")
          /\ air' = AirAfterTimeout("perp")
          /\ per' = IF per.num_missed_events >= MAX_MISSED_EVENTS
                    THEN [per EXCEPT !.state = "Advertisement"]
                    ELSE [per EXCEPT !.num_missed_events = @ + 1,
                                     !.state = "ConnectedSend"]
          /\ h_miss' = h_miss + 1
          /\ UNCHANGED <<RECV_CHANNEL, h_log, h_evicted, h_last>>
    /\ UNCHANGED <<cen, cen_pc, cen_try, cen_pkt, per_pc, per_try, per_pkt,
                   SEND_CHANNEL, app_wait, app_sent, channel, h_taken, h_sent>>
    /\ UNCHANGED <<codecVars, tableVars, digitalVars, wootingVars, engineVars, mouseVars, comVars, switchVars, hwVars, lockVars, storageVars, boardVars, heKeysVars>>

\* RadioPerp::run, ConnectedSend: the state becomes ConnectedReceive, then
\* either the guard timeout ends the send window or the next packet of
\* SEND_CHANNEL is given the next id and sent
PerpConnectedSend ==
    /\ \/ per.state = "ConnectedSend" /\ per_pc = "idle"
       \/ per_pc = "send_loop"
    /\ \/ /\ per' = [per EXCEPT !.state = "ConnectedReceive"]
          /\ per_pc' = "idle"
          /\ UNCHANGED <<per_try, per_pkt, SEND_CHANNEL, air, h_sent>>
       \/ /\ SEND_CHANNEL["perp"] # <<>>
          /\ LET id == (per.tx_id + 1) % (2 ^ 8)
                 packet == [Head(SEND_CHANNEL["perp"]) EXCEPT
                                !.id = id, !.type = "Data"]
             IN  /\ per' = [per EXCEPT !.state = "ConnectedReceive",
                                       !.tx_id = id]
                 /\ per_pkt' = packet
                 /\ air' = Some(OnAir(packet, "perp"))
                 /\ h_sent' = [h_sent EXCEPT !["perp"] = Some(id)]
          /\ SEND_CHANNEL' = [SEND_CHANNEL EXCEPT !["perp"] = Tail(@)]
          /\ per_pc' = "await_ack"
          /\ per_try' = 1
    /\ UNCHANGED <<cen, cen_pc, cen_try, cen_pkt, RECV_CHANNEL, app_wait,
                   app_sent, channel, h_last, h_log, h_evicted, h_taken, h_miss>>
    /\ UNCHANGED <<codecVars, tableVars, digitalVars, wootingVars, engineVars, mouseVars, comVars, switchVars, hwVars, lockVars, storageVars, boardVars, heKeysVars>>

\* RadioPerp::run, ConnectedSend, the wait for the Ack and the retries
PerpAwaitAck ==
    /\ per_pc = "await_ack"
    /\ \/ /\ Hears("perp")
          /\ air' = None
          /\ IF PerpAckCond(per_pkt.id, air[1])
             THEN /\ per' = [per EXCEPT !.num_missed_events = 0]
                  /\ per_pc' = "idle"
                  /\ per_try' = 0
                  /\ per_pkt' = PacketDefault
                  /\ h_miss' = 0
             ELSE UNCHANGED <<per, per_pc, per_try, per_pkt, h_miss>>
       \/ /\ MayTimeout("perp")
          /\ IF per_try < NUM_RETRIES
             THEN /\ air' = Some(OnAir(per_pkt, "perp"))
                  /\ per_try' = per_try + 1
                  /\ UNCHANGED <<per_pc, per_pkt, h_miss>>
             ELSE /\ air' = AirAfterTimeout("perp")
                  /\ per_pc' = "send_loop"
                  /\ h_miss' = h_miss + 1
                  /\ per_try' = 0
                  /\ per_pkt' = PacketDefault
          /\ UNCHANGED per
    /\ UNCHANGED <<cen, cen_pc, cen_try, cen_pkt, SEND_CHANNEL, RECV_CHANNEL,
                   app_wait, app_sent, channel, h_last, h_log, h_evicted, h_taken, h_sent>>
    /\ UNCHANGED <<codecVars, tableVars, digitalVars, wootingVars, engineVars, mouseVars, comVars, switchVars, hwVars, lockVars, storageVars, boardVars, heKeysVars>>

\* send_packet: SEND_CHANNEL.send(*packet).await queues the packet, or
\* suspends the caller while the channel is full and queues the packet once
\* the radio task has made room
SendPacket(side) ==
    /\ \/ /\ app_wait[side] = None
          /\ app_sent[side] < MaxSends(side)
          /\ LET packet == AppPacket(app_sent[side] + 1) IN
             IF Len(SEND_CHANNEL[side]) < NUM_PACKETS
             THEN /\ SEND_CHANNEL' = [SEND_CHANNEL EXCEPT
                                          ![side] = Append(@, packet)]
                  /\ UNCHANGED app_wait
             ELSE /\ app_wait' = [app_wait EXCEPT ![side] = Some(packet)]
                  /\ UNCHANGED SEND_CHANNEL
          /\ app_sent' = [app_sent EXCEPT ![side] = @ + 1]
       \/ /\ app_wait[side] # None
          /\ Len(SEND_CHANNEL[side]) < NUM_PACKETS
          /\ SEND_CHANNEL' = [SEND_CHANNEL EXCEPT
                                  ![side] = Append(@, app_wait[side][1])]
          /\ app_wait' = [app_wait EXCEPT ![side] = None]
          /\ UNCHANGED app_sent
    /\ UNCHANGED <<cen, cen_pc, cen_try, cen_pkt, per, per_pc, per_try,
                   per_pkt, RECV_CHANNEL, air, channel, h_last, h_log,
                   h_evicted, h_taken, h_sent, h_miss>>
    /\ UNCHANGED <<codecVars, tableVars, digitalVars, wootingVars, engineVars, mouseVars, comVars, switchVars, hwVars, lockVars, storageVars, boardVars, heKeysVars>>

\* receive_packet: RECV_CHANNEL.receive().await returns the oldest packet
ReceivePacket(side) ==
    /\ RECV_CHANNEL[side] # <<>>
    /\ RECV_CHANNEL' = [RECV_CHANNEL EXCEPT ![side] = Tail(@)]
    /\ h_taken' = [h_taken EXCEPT ![side] = @ + 1]
    /\ UNCHANGED <<cen, cen_pc, cen_try, cen_pkt, per, per_pc, per_try,
                   per_pkt, SEND_CHANNEL, air, app_wait, app_sent, channel,
                   h_last, h_log, h_evicted, h_sent, h_miss>>
    /\ UNCHANGED <<codecVars, tableVars, digitalVars, wootingVars, engineVars, mouseVars, comVars, switchVars, hwVars, lockVars, storageVars, boardVars, heKeysVars>>

RadioInit ==
    /\ cen = CentralConnectionDefault
    /\ cen_pc = "idle"
    /\ cen_try = 0
    /\ cen_pkt = PacketDefault
    /\ per = RadioPerpNew
    /\ per_pc = "idle"
    /\ per_try = 0
    /\ per_pkt = PacketDefault
    /\ SEND_CHANNEL = [side \in Sides |-> <<>>]
    /\ RECV_CHANNEL = [side \in Sides |-> <<>>]
    /\ air = None
    /\ app_wait = [side \in Sides |-> None]
    /\ app_sent = [side \in Sides |-> 0]
    /\ h_last = [side \in Sides |-> None]
    /\ h_log = [side \in Sides |-> <<>>]
    /\ h_evicted = [side \in Sides |-> 0]
    /\ h_taken = [side \in Sides |-> 0]
    /\ h_sent = [side \in Sides |-> None]
    /\ h_miss = 0

\* the tasks of the two radios
RadioTaskNext ==
    \/ CentralAdvertisement
    \/ CentralConnectedReceive
    \/ CentralConnectedSend
    \/ CentralAwaitAck
    \/ PerpAdvertisement
    \/ PerpAwaitEstablish
    \/ PerpConnectedReceive
    \/ PerpConnectedSend
    \/ PerpAwaitAck

\* the lossy channel goes dead: from here on every packet is lost
ChannelDies ==
    /\ channel = "failing"
    /\ channel' = "dead"
    /\ UNCHANGED <<cen, cen_pc, cen_try, cen_pkt, per, per_pc, per_try, per_pkt,
                   SEND_CHANNEL, RECV_CHANNEL, air, app_wait, app_sent,
                   h_last, h_log, h_evicted, h_taken, h_sent, h_miss>>
    /\ UNCHANGED <<codecVars, tableVars, digitalVars, wootingVars, engineVars, mouseVars, comVars, switchVars, hwVars, lockVars, storageVars, boardVars, heKeysVars>>

\* RadioCentral::run and RadioPerp::run
CentralTask ==
    \/ CentralAdvertisement
    \/ CentralConnectedReceive
    \/ CentralConnectedSend
    \/ CentralAwaitAck

PerpTask ==
    \/ PerpAdvertisement
    \/ PerpAwaitEstablish
    \/ PerpConnectedReceive
    \/ PerpConnectedSend
    \/ PerpAwaitAck

RadioNext ==
    \/ RadioTaskNext
    \/ \E side \in Sides : SendPacket(side)
    \/ \E side \in Sides : ReceivePacket(side)

RadioFailingNext ==
    \/ RadioNext
    \/ ChannelDies

(***************************************************************************)
(* Byte-stream framing (com.rs): ContiniousWriter and ContiniousReader     *)
(* over 32-byte HID frames.  Indices are 0-based as in the source; the     *)
(* buffers are 1-based sequences.                                          *)
(***************************************************************************)
\* BUFFER_SIZE of com.rs
COM_BUFFER_SIZE == 32
\* most bytes written to the framed stream, and the slice lengths used
MaxWritten == 70
WriteLens == {1, 30, 35}
PopLens == {2, 33}

MinOf(a, b) == IF a < b THEN a ELSE b

\* ContiniousWriter::new
ContiniousWriterNew == [index |-> 0, input |-> Zeros(COM_BUFFER_SIZE)]

\* ContiniousReader::new
ContiniousReaderNew ==
    [index |-> 0, buffer_len |-> 0, buffer |-> Zeros(COM_BUFFER_SIZE)]

\* the loop of ContiniousWriter::write from buf_index on; sent collects the
\* frames handed to write_serialize
RECURSIVE WriteLoop(_, _, _, _)
WriteLoop(wr, buf, buf_index, sent) ==
    IF buf_index >= Len(buf) THEN [writer |-> wr, sent |-> sent]
    ELSE LET buf_end == MinOf(buf_index + (COM_BUFFER_SIZE - wr.index), Len(buf))
             write_len == buf_end - buf_index
             rep_end == wr.index + write_len
             input == [i \in 1..COM_BUFFER_SIZE |->
                          IF wr.index < i /\ i <= rep_end
                          THEN buf[buf_index + (i - wr.index)]
                          ELSE wr.input[i]]
         IN  IF rep_end = 32
             THEN WriteLoop([index |-> 0, input |-> input], buf, buf_end,
                            Append(sent, input))
             ELSE WriteLoop([index |-> rep_end, input |-> input], buf, buf_end,
                            sent)

\* ContiniousWriter::write
WriterWrite(wr, buf) == WriteLoop(wr, buf, 0, <<>>)

\* A wrong flush: the rest of the frame keeps its old bytes.
WriterFlushStale(wr) ==
    IF wr.index # 0
    THEN [writer |-> [wr EXCEPT !.index = 0], sent |-> <<wr.input>>]
    ELSE [writer |-> wr, sent |-> <<>>]

\* ContiniousWriter::flush
WriterFlush(wr) ==
    IF wr.index # 0
    THEN LET input == [i \in 1..COM_BUFFER_SIZE |->
                          IF i > wr.index THEN 0 ELSE wr.input[i]]
         IN  [writer |-> [index |-> 0, input |-> input], sent |-> <<input>>]
    ELSE [writer |-> wr, sent |-> <<>>]

\* self.buffer_len = self.reader.read(&mut self.buffer): the next frame of
\* the wire w is copied to the front of the buffer
ReaderRead(rd, w) ==
    [rd EXCEPT !.buffer_len = Len(Head(w)),
               !.buffer = [i \in 1..COM_BUFFER_SIZE |->
                              IF i <= Len(Head(w)) THEN Head(w)[i]
                              ELSE rd.buffer[i]]]

\* ContiniousReader::pop on the wire w; ok is FALSE while the read it needs
\* has no frame to return
ReaderPop(rd, w) ==
    IF rd.index = 0 /\ w = <<>>
    THEN [ok |-> FALSE, val |-> 0, reader |-> rd, wire |-> w]
    ELSE LET r1 == IF rd.index = 0 THEN ReaderRead(rd, w) ELSE rd
             w1 == IF rd.index = 0 THEN Tail(w) ELSE w
             index == r1.index + 1
         IN  [ok |-> TRUE,
              val |-> r1.buffer[r1.index + 1],
              reader |-> [r1 EXCEPT !.index =
                             IF index = r1.buffer_len THEN 0 ELSE index],
              wire |-> w1]

\* the loop of ContiniousReader::pop_slice for a destination of n bytes,
\* from buf_index on; out collects the bytes copied
RECURSIVE PopSliceLoop(_, _, _, _, _)
PopSliceLoop(rd, w, n, buf_index, out) ==
    IF buf_index >= n
    THEN [ok |-> TRUE, bytes |-> out, reader |-> rd, wire |-> w]
    ELSE IF rd.index = 0 /\ w = <<>>
    THEN [ok |-> FALSE, bytes |-> out, reader |-> rd, wire |-> w]
    ELSE LET r1 == IF rd.index = 0 THEN ReaderRead(rd, w) ELSE rd
             w1 == IF rd.index = 0 THEN Tail(w) ELSE w
             buf_end == MinOf(buf_index + (r1.buffer_len - r1.index), n)
             write_len == buf_end - buf_index
             rep_end == r1.index + write_len
         IN  PopSliceLoop(
                [r1 EXCEPT !.index = IF rep_end = r1.buffer_len THEN 0 ELSE rep_end],
                w1, n, buf_end,
                out \o SubSeq(r1.buffer, r1.index + 1, rep_end))

\* ContiniousReader::pop_slice
ReaderPopSlice(rd, w, n) == PopSliceLoop(rd, w, n, 0, <<>>)

\* ContiniousReader::flush
ReaderFlush(rd) == [rd EXCEPT !.index = 0]

\* the k-th byte written to the framed stream (never 0, the padding byte)
StreamByte(k) == ((k - 1) % (U8Mod - 1)) + 1

ComInit ==
    /\ cw = ContiniousWriterNew
    /\ cr = ContiniousReaderNew
    /\ com_wire = <<>>
    /\ com_out = <<>>
    /\ com_op = "none"
    /\ com_res = "none"
    /\ com_panic = FALSE
    /\ h_written = <<>>
    /\ h_read = <<>>
    /\ cw_flushed = FALSE

\* writer.write(buf) of the next n bytes of the stream
FrameWrite(n) ==
    /\ ~cw_flushed
    /\ Len(h_written) + n <= MaxWritten
    /\ LET buf == [i \in 1..n |-> StreamByte(Len(h_written) + i)]
           run == WriterWrite(cw, buf)
       IN  /\ cw' = run.writer
           /\ com_wire' = com_wire \o run.sent
           /\ h_written' = h_written \o buf
    /\ UNCHANGED <<cr, com_out, com_op, com_res, com_panic, h_read, cw_flushed>>
    /\ UNCHANGED <<codecVars, tableVars, digitalVars, wootingVars, engineVars, mouseVars, radioVars, switchVars, hwVars, lockVars, storageVars, boardVars, heKeysVars>>

\* writer.flush() at the end of the stream
FrameFlush ==
    /\ ~cw_flushed
    /\ LET run == WriterFlush(cw)
       IN  /\ cw' = run.writer
           /\ com_wire' = com_wire \o run.sent
    /\ cw_flushed' = TRUE
    /\ UNCHANGED <<cr, com_out, com_op, com_res, com_panic, h_written, h_read>>
    /\ UNCHANGED <<codecVars, tableVars, digitalVars, wootingVars, engineVars, mouseVars, radioVars, switchVars, hwVars, lockVars, storageVars, boardVars, heKeysVars>>

\* reader.pop() returns
FramePop ==
    /\ LET run == ReaderPop(cr, com_wire)
       IN  /\ run.ok
           /\ cr' = run.reader
           /\ com_wire' = run.wire
           /\ h_read' = Append(h_read, run.val)
    /\ UNCHANGED <<cw, com_out, com_op, com_res, com_panic, h_written, cw_flushed>>
    /\ UNCHANGED <<codecVars, tableVars, digitalVars, wootingVars, engineVars, mouseVars, radioVars, switchVars, hwVars, lockVars, storageVars, boardVars, heKeysVars>>

\* reader.pop_slice(buf) with buf.len() = n returns
FramePopSlice(n) ==
    /\ LET run == ReaderPopSlice(cr, com_wire, n)
       IN  /\ run.ok
           /\ cr' = run.reader
           /\ com_wire' = run.wire
           /\ h_read' = h_read \o run.bytes
    /\ UNCHANGED <<cw, com_out, com_op, com_res, com_panic, h_written, cw_flushed>>
    /\ UNCHANGED <<codecVars, tableVars, digitalVars, wootingVars, engineVars, mouseVars, radioVars, switchVars, hwVars, lockVars, storageVars, boardVars, heKeysVars>>

FrameNext ==
    \/ \E n \in WriteLens : FrameWrite(n)
    \/ FrameFlush
    \/ FramePop
    \/ \E n \in PopLens : FramePopSlice(n)

(***************************************************************************)
(* The command loop (com.rs: Com::com_loop) and the keymap transfers of    *)
(* Keys (keys.rs).  A request is handled in one step, from the pop of its  *)
(* request byte to reader.flush(), once the host has sent its frames.      *)
(***************************************************************************)
\* HidRequest::from(u8); "Panic" stands for todo!()
HidRequestFrom(value) ==
    CASE value = 0 -> "UpdateKeys"
      [] value = 1 -> "KeyboardInfo"
      [] value = 2 -> "WriteToFlash"
      [] value = 3 -> "KeyboardMetaInfo"
      [] OTHER -> "Panic"

\* number of cells of the code table, visited key by key
NumCells == NUM_KEYS * NUM_LAYERS

\* the loop of load_keys_from_com from cell k on; res is "Ok", "Err"
\* (the ? on the tag), "Panic" (the unwrap of deserialize_from) or
\* "Blocked" (a read waits for a frame)
RECURSIVE LoadComLoop(_, _, _, _)
LoadComLoop(ks, rd, w, k) ==
    IF k = NumCells THEN [res |-> "Ok", keys |-> ks, reader |-> rd, wire |-> w]
    ELSE LET p == ReaderPop(rd, w)
             hid_type == HidTypeTryFrom(p.val)
         IN  IF ~p.ok
             THEN [res |-> "Blocked", keys |-> ks, reader |-> rd, wire |-> w]
             ELSE IF hid_type = "Invalid"
             THEN [res |-> "Err", keys |-> ks, reader |-> p.reader, wire |-> p.wire]
             ELSE LET s == ReaderPopSlice(p.reader, p.wire, GetLen(hid_type) - 1)
                      dec == DeserializeFrom(<<p.val>> \o s.bytes)
                  IN  IF ~s.ok
                      THEN [res |-> "Blocked", keys |-> ks, reader |-> rd, wire |-> w]
                      ELSE IF dec.err # "none"
                      THEN [res |-> "Panic", keys |-> ks, reader |-> s.reader,
                            wire |-> s.wire]
                      ELSE LoadComLoop(
                              [ks EXCEPT !.codes[k \div NUM_LAYERS][k % NUM_LAYERS] = dec.val],
                              s.reader, s.wire, k + 1)

\* Keys::load_keys_from_com
LoadKeysFromCom(ks, rd, w, config_num) ==
    LoadComLoop([ks EXCEPT !.config_num = config_num], rd, w, 0)

\* Keys::write_keys_to_com from cell k on
RECURSIVE WriteKeysLoop(_, _, _, _)
WriteKeysLoop(ks, wr, k, sent) ==
    IF k = NumCells THEN [writer |-> wr, sent |-> sent]
    ELSE LET code == ks.codes[k \div NUM_LAYERS][k % NUM_LAYERS]
             enc == IntoBuffer(code, Zeros(IntoBufferLen(code)))
             run == WriterWrite(wr, enc.buffer)
         IN  WriteKeysLoop(ks, run.writer, k + 1, sent \o run.sent)

\* Keys::write_keys_to_storage: the flash afterwards
WriteKeysToStorage(ks, config_num, f) ==
    [key \in DOMAIN f \cup {ToKey(config_num, l) : l \in LayerIdx} |->
        IF \E l \in LayerIdx : ToKey(config_num, l) = key
        THEN LET l == CHOOSE x \in LayerIdx : ToKey(config_num, x) = key
             IN  [i \in 1..NUM_KEYS |-> ks.codes[i - 1][l]]
        ELSE f[key]]

\* the KeyboardInfo loop from profile config_num on
RECURSIVE InfoLoop(_, _, _, _, _)
InfoLoop(default_keys, wr, config_num, sent, f) ==
    IF config_num = NUM_CONFIGS THEN [writer |-> wr, sent |-> sent]
    ELSE LET live == keys.config_num = config_num
             dk == IF live THEN default_keys
                   ELSE LoadKeysFromStorage(default_keys, config_num, f).keys
             run == WriteKeysLoop(IF live THEN keys ELSE dk, wr, 0, <<>>)
         IN  InfoLoop(dk, run.writer, config_num + 1, sent \o run.sent, f)

\* the WriteToFlash loop from profile config_num on; live is the locked
\* Keys, default_keys the local one
RECURSIVE FlashLoop(_, _, _, _, _, _)
FlashLoop(live, default_keys, rd, w, config_num, f) ==
    IF config_num = NUM_CONFIGS
    THEN [res |-> "Ok", keys |-> live, reader |-> rd, wire |-> w, flash |-> f]
    ELSE LET use_live == live.config_num = config_num
             ld == LoadKeysFromCom(IF use_live THEN live ELSE default_keys,
                                   rd, w, config_num)
         IN  IF ld.res # "Ok"
             THEN [res |-> IF ld.res = "Blocked" THEN "Blocked" ELSE "Panic",
                   keys |-> IF use_live THEN ld.keys ELSE live,
                   reader |-> ld.reader, wire |-> ld.wire, flash |-> f]
             ELSE FlashLoop(IF use_live THEN ld.keys ELSE live,
                            IF use_live THEN default_keys ELSE ld.keys,
                            ld.reader, ld.wire, config_num + 1,
                            WriteKeysToStorage(ld.keys, config_num, f))

\* the frames of a byte stream sent by the host
HostFrames(stream) ==
    LET run == WriterWrite(ContiniousWriterNew, stream)
    IN  run.sent \o WriterFlush(run.writer).sent

\* the code table of profile c of the key bindings
UploadTable(c) == [i \in KeyIdx |-> [l \in LayerIdx |-> CellAt(c, i, l)]]

\* the encoding of table t from cell k on, the tag of cell bad replaced by
\* a byte that is no tag
RECURSIVE TableStream(_, _, _)
TableStream(t, bad, k) ==
    IF k = NumCells THEN <<>>
    ELSE (IF k = bad THEN <<9>>
          ELSE EncodedBytes(t[k \div NUM_LAYERS][k % NUM_LAYERS]))
         \o TableStream(t, bad, k + 1)

\* what the host sends: uploads and flash writes, sound or with one bad
\* tag, the two read requests and an unknown request byte
HostInputs ==
    { HostFrames(<<0, c>> \o TableStream(UploadTable(t), bad, 0)) :
        c \in ConfigIdx, t \in ConfigIdx, bad \in {-1, 0, 4, NumCells - 1} }
    \cup { HostFrames(<<2>> \o TableStream(UploadTable(x[1]), x[2], 0)
                            \o TableStream(UploadTable(x[3]), x[4], 0)) :
             x \in { <<0, -1, 1, -1>>, <<1, -1, 0, -1>>, <<0, 4, 1, -1>>,
                     <<0, -1, 1, NumCells - 1>> } }
    \cup { HostFrames(<<1>>), HostFrames(<<3>>), HostFrames(<<4>>) }

\* the host sends the frames of one request
HostSend(frames) ==
    /\ ~com_panic
    /\ com_wire = <<>>
    /\ com_wire' = frames
    /\ UNCHANGED <<cw, cr, com_out, com_op, com_res, com_panic, h_written, h_read,
                   cw_flushed>>
    /\ UNCHANGED <<codecVars, tableVars, digitalVars, wootingVars, engineVars, mouseVars, radioVars, switchVars, hwVars, lockVars, storageVars, boardVars, heKeysVars>>

\* com_loop, HidRequest::UpdateKeys
ComUpdateKeys ==
    /\ ~com_panic
    /\ LET req == ReaderPop(cr, com_wire)
           cfg == ReaderPop(req.reader, req.wire)
           ld == LoadKeysFromCom([keys EXCEPT !.config_num = cfg.val],
                                 cfg.reader, cfg.wire, cfg.val)
       IN  /\ req.ok
           /\ HidRequestFrom(req.val) = "UpdateKeys"
           /\ cfg.ok
           /\ ld.res # "Blocked"
           /\ com_res' = ld.res
           /\ com_panic' = (ld.res = "Panic")
           /\ keys' = IF ld.res = "Err"
                      THEN LoadKeysFromStorage(ld.keys, 0, flash).keys
                      ELSE ld.keys
           /\ cr' = IF ld.res = "Panic" THEN ld.reader ELSE ReaderFlush(ld.reader)
           /\ com_wire' = ld.wire
    /\ com_op' = "UpdateKeys"
    /\ UNCHANGED <<cw, com_out, h_written, h_read, cw_flushed>>
    /\ UNCHANGED <<report, flash, pressed_keys, returned_report, e_op,
                   settle_elapsed, load_res, e_arg, e_ret, e_panic, h_latch, h_toggled,
                h_pressed, h_first>>
    /\ UNCHANGED <<codecVars, tableVars, digitalVars, wootingVars, mouseVars, radioVars, switchVars, hwVars, lockVars, storageVars, boardVars, heKeysVars>>

\* com_loop, HidRequest::KeyboardInfo
ComKeyboardInfo ==
    /\ ~com_panic
    /\ LET req == ReaderPop(cr, com_wire)
           run == InfoLoop(KeysDefault, cw, 0, <<>>, flash)
           fl == WriterFlush(run.writer)
       IN  /\ req.ok
           /\ HidRequestFrom(req.val) = "KeyboardInfo"
           /\ cw' = fl.writer
           /\ com_out' = run.sent \o fl.sent
           /\ cr' = ReaderFlush(req.reader)
           /\ com_wire' = req.wire
    /\ com_op' = "KeyboardInfo"
    /\ UNCHANGED <<com_res, com_panic, h_written, h_read, cw_flushed>>
    /\ UNCHANGED <<codecVars, tableVars, digitalVars, wootingVars, engineVars, mouseVars, radioVars, switchVars, hwVars, lockVars, storageVars, boardVars, heKeysVars>>

\* com_loop, HidRequest::WriteToFlash
ComWriteToFlash ==
    /\ ~com_panic
    /\ LET req == ReaderPop(cr, com_wire)
           run == FlashLoop(keys, KeysDefault, req.reader, req.wire, 0, flash)
       IN  /\ req.ok
           /\ HidRequestFrom(req.val) = "WriteToFlash"
           /\ run.res # "Blocked"
           /\ com_res' = IF run.res = "Panic" THEN "Err" ELSE "Ok"
           /\ com_panic' = (run.res = "Panic")
           /\ keys' = run.keys
           /\ flash' = run.flash
           /\ cr' = IF run.res = "Panic" THEN run.reader ELSE ReaderFlush(run.reader)
           /\ com_wire' = run.wire
    /\ com_op' = "WriteToFlash"
    /\ UNCHANGED <<cw, com_out, h_written, h_read, cw_flushed>>
    /\ UNCHANGED <<report, pressed_keys, returned_report, e_op,
                   settle_elapsed, load_res, e_arg, e_ret, e_panic, h_latch, h_toggled,
                h_pressed, h_first>>
    /\ UNCHANGED <<codecVars, tableVars, digitalVars, wootingVars, mouseVars, radioVars, switchVars, hwVars, lockVars, storageVars, boardVars, heKeysVars>>

\* com_loop, HidRequest::KeyboardMetaInfo
ComKeyboardMetaInfo ==
    /\ ~com_panic
    /\ LET req == ReaderPop(cr, com_wire)
           run == WriterWrite(cw, <<NUM_CONFIGS, NUM_KEYS, NUM_LAYERS, 1>>)
           fl == WriterFlush(run.writer)
       IN  /\ req.ok
           /\ HidRequestFrom(req.val) = "KeyboardMetaInfo"
           /\ cw' = fl.writer
           /\ com_out' = run.sent \o fl.sent
           /\ cr' = ReaderFlush(req.reader)
           /\ com_wire' = req.wire
    /\ com_op' = "KeyboardMetaInfo"
    /\ UNCHANGED <<com_res, com_panic, h_written, h_read, cw_flushed>>
    /\ UNCHANGED <<codecVars, tableVars, digitalVars, wootingVars, engineVars, mouseVars, radioVars, switchVars, hwVars, lockVars, storageVars, boardVars, heKeysVars>>

\* com_loop on a request byte that names no HidRequest
ComUnknownRequest ==
    /\ ~com_panic
    /\ LET req == ReaderPop(cr, com_wire)
       IN  /\ req.ok
           /\ HidRequestFrom(req.val) = "Panic"
           /\ cr' = req.reader
           /\ com_wire' = req.wire
    /\ com_panic' = TRUE
    /\ com_op' = "Panic"
    /\ UNCHANGED <<cw, com_out, com_res, h_written, h_read, cw_flushed>>
    /\ UNCHANGED <<codecVars, tableVars, digitalVars, wootingVars, engineVars, mouseVars, radioVars, switchVars, hwVars, lockVars, storageVars, boardVars, heKeysVars>>

\* the scan task changes profile (a ChangeConfig key) while com_loop runs
ComLoadProfile(config_num) ==
    /\ ~com_panic
    /\ LoadProfile(config_num)

ComNext ==
    \/ \E frames \in HostInputs : HostSend(frames)
    \/ ComUpdateKeys
    \/ ComKeyboardInfo
    \/ ComWriteToFlash
    \/ ComKeyboardMetaInfo
    \/ ComUnknownRequest
    \/ \E config_num \in ConfigIdx : ComLoadProfile(config_num)

(***************************************************************************)
(* HeSwitch (position.rs:346-411): a switch is one of the analog variants  *)
(* and every KeyState call is forwarded to it.  The calibration phase      *)
(* (tybeast_he/src/sensors.rs: HallEffectSensors::setup) runs over one     *)
(* Wooting and one Digital switch.                                         *)
(***************************************************************************)
HeKinds == {"Wooting", "Digital"}

\* values handed to calibrate
CalibrateValues == {0, 1390, 1400, 1500, 1700, 1710}

\* ADC readings of the calibration phase
SetupSamples == {0, 1380, 1390, 1500, 1600, 1710, 1720}

\* the switches HallEffectSensors::setup visits, in its order
SetupOrder == <<"Wooting", "Digital">>

SwitchInit ==
    /\ he_kind = "Wooting"
    /\ cal_i = 0
    /\ cal_setup = FALSE

DigitalDoCalibrate(buf) ==
    /\ dp' = DigitalCalibrate(dp, buf)
    /\ d_op' = "calibrate"
    /\ UNCHANGED <<codecVars, tableVars, wootingVars, engineVars, mouseVars, radioVars, comVars, switchVars, hwVars, lockVars, storageVars, boardVars, heKeysVars>>

WootingDoCalibrate(buf) ==
    /\ ~w_panic
    /\ wp' = WootingCalibrate(wp, buf)
    /\ w_op' = "calibrate"
    /\ UNCHANGED <<w_panic, overflow_checks>>
    /\ UNCHANGED <<codecVars, tableVars, digitalVars, engineVars, mouseVars, radioVars, comVars, switchVars, hwVars, lockVars, storageVars, boardVars, heKeysVars>>

\* HeSwitch::setup
HeSetup(reading) ==
    IF he_kind = "Wooting" THEN WootingDoSetup(reading) ELSE DigitalDoSetup(reading)

\* HeSwitch::update_buf
HeUpdateBuf(buf) ==
    IF he_kind = "Wooting" THEN WootingDoUpdateBuf(buf) ELSE DigitalDoUpdateBuf(buf)

\* HeSwitch::calibrate
HeCalibrate(buf) ==
    IF he_kind = "Wooting" THEN WootingDoCalibrate(buf) ELSE DigitalDoCalibrate(buf)

\* HeSwitch::reset
HeReset ==
    IF he_kind = "Wooting" THEN WootingDoReset ELSE DigitalDoReset

HeNext ==
    \/ \E reading \in WootingSamples \cup {0} : HeSetup(reading)
    \/ \E buf \in WootingSamples : HeUpdateBuf(buf)
    \/ \E buf \in CalibrateValues : HeCalibrate(buf)
    \/ HeReset

\* one pass of the for loop of HallEffectSensors::setup: the switch at
\* cal_i is handed the ADC reading; after the last switch the while loop
\* ends if every setup of the round returned true
SensorsSetupStep(reading) ==
    /\ cal_i # 0 \/ ~cal_setup
    /\ LET kind == SetupOrder[cal_i + 1]
           res == IF kind = "Wooting" THEN WootingSetup(wp, reading).ret
                  ELSE DigitalSetup(dp, reading).ret
           setup == (IF cal_i = 0 THEN TRUE ELSE cal_setup) /\ res
       IN  /\ IF kind = "Wooting"
              THEN /\ wp' = WootingSetup(wp, reading).state
                   /\ w_op' = "setup"
                   /\ UNCHANGED <<dp, d_op>>
              ELSE /\ dp' = DigitalSetup(dp, reading).state
                   /\ d_op' = "setup"
                   /\ UNCHANGED <<wp, w_op>>
           /\ cal_setup' = setup
           /\ cal_i' = (cal_i + 1) % Len(SetupOrder)
    /\ UNCHANGED <<w_panic, overflow_checks, he_kind>>
    /\ UNCHANGED <<codecVars, tableVars, engineVars, mouseVars, radioVars, comVars, hwVars, lockVars, storageVars, boardVars, heKeysVars>>

SensorsSetupNext == \E reading \in SetupSamples : SensorsSetupStep(reading)

(***************************************************************************)
(* The report task and the command loop sharing the Keys behind its mutex: *)
(* boot load, report ticks and UpdateKeys uploads, each run under the lock.*)
(***************************************************************************)
\* uploads the host sends: table 1 into either profile number, sound or
\* with a bad tag in cell 4
ProfileInputs ==
    { HostFrames(<<0, c>> \o TableStream(UploadTable(1), bad, 0)) :
        c \in ConfigIdx, bad \in {-1, 4} }

\* sensor readings of the report ticks: key 2 is left alone
ProfileReadings == {r \in [KeyIdx -> BOOLEAN] : ~r[2]}

\* main: keys.load_keys_from_storage(0) before the tasks start
ProfileBoot == e_op = "init" /\ LoadProfile(0)

\* the report task takes the lock and runs generate_report
ProfileTick(readings) ==
    /\ ~com_panic
    /\ e_op # "init"
    /\ GenerateReport(readings)

\* the command loop takes the lock (free only when get_keys is not waiting
\* on its settle timer) and serves an UpdateKeys request
ProfileUpdateKeys ==
    /\ e_op \notin {"init", "settle"}
    /\ ComUpdateKeys

ProfileNext ==
    \/ ProfileBoot
    \/ \E readings \in ProfileReadings : ProfileTick(readings)
    \/ SettleWait
    \/ SettleDone
    \/ \E frames \in ProfileInputs : HostSend(frames)
    \/ ProfileUpdateKeys

(***************************************************************************)
(* The radio peripheral and the futures that drive it (inner_radio.rs).    *)
(***************************************************************************)
\* states of the RADIO peripheral as r.state() reports them; with the
\* shortcuts READY_START and END_DISABLE set by init the idle states are
\* passed through
HwStates == {"DISABLED", "RXRU", "RX", "RXDISABLE", "TXRU", "TX", "TXDISABLE"}

HwReset == [state |-> "DISABLED", events_disabled |-> 0, events_crcok |-> 0]

NoFuture == [kind |-> "none", init |-> FALSE, complete |-> FALSE]

\* ReceiveFuture::new and SendFuture::new
FutureNew(kind) == [kind |-> kind, init |-> FALSE, complete |-> FALSE]

\* TASKS_RXEN and TASKS_TXEN: the peripheral ramps up from DISABLED
HwEnable(h, kind) ==
    IF h.state = "DISABLED"
    THEN [h EXCEPT !.state = IF kind = "receive" THEN "RXRU" ELSE "TXRU"]
    ELSE h

\* ReceiveFuture::init and SendFuture::init: shortcuts, packet pointer and
\* the enable task, once per future
FutureInit(h, f) == IF f.init THEN h ELSE HwEnable(h, f.kind)

\* TASKS_DISABLE
HwDisable(h) ==
    [h EXCEPT !.state =
        IF h.state \in {"RXRU", "RX"} THEN "RXDISABLE"
        ELSE IF h.state \in {"TXRU", "TX"} THEN "TXDISABLE"
        ELSE h.state]

\* impl Drop for ReceiveFuture / SendFuture, up to the wait for DISABLED
FutureDrop(h, f) == IF ~f.complete THEN HwDisable(h) ELSE h

\* a Drop that does not wait for the peripheral
DropWaitSkipped(h, f) == TRUE

\* impl Drop, the loop on r.state(): it is over when the peripheral is
\* DISABLED; a complete future does not enter it
DropWaitOver(h, f) == f.complete \/ h.state = "DISABLED"

\* the peripheral goes on by itself: ramp-up ends and the packet starts
\* (READY_START), the packet ends with or without a good CRC and the
\* peripheral is disabled (END_DISABLE), the disabling ends with the
\* DISABLED event
HwProgress ==
    /\ \/ /\ hw.state = "RXRU"
          /\ hw' = [hw EXCEPT !.state = "RX"]
       \/ /\ hw.state = "RX"
          /\ \E crc \in BOOLEAN :
                hw' = [hw EXCEPT !.state = "RXDISABLE",
                                 !.events_crcok = IF crc THEN 1 ELSE @]
       \/ /\ hw.state = "TXRU"
          /\ hw' = [hw EXCEPT !.state = "TX"]
       \/ /\ hw.state = "TX"
          /\ hw' = [hw EXCEPT !.state = "TXDISABLE"]
       \/ /\ hw.state \in {"RXDISABLE", "TXDISABLE"}
          /\ hw' = [hw EXCEPT !.state = "DISABLED", !.events_disabled = 1]
    /\ UNCHANGED <<rf, rr_pc, rr_ret, rr_calls, rr_tries>>
    /\ UNCHANGED <<codecVars, tableVars, digitalVars, wootingVars, engineVars, mouseVars, radioVars, comVars, switchVars, lockVars, storageVars, boardVars, heKeysVars>>

\* Radio::receive_with_conditions up to the first Pending of the select:
\* the timer is polled, then receive_task creates a ReceiveFuture and polls
\* it, which runs init
RadioReceiveCall ==
    /\ rr_pc = "idle"
    /\ rr_calls < MaxRadioCalls
    /\ rf' = [FutureNew("receive") EXCEPT !.init = TRUE]
    /\ hw' = FutureInit(hw, FutureNew("receive"))
    /\ rr_pc' = "receive"
    /\ rr_ret' = "none"
    /\ rr_calls' = rr_calls + 1
    /\ rr_tries' = 1
    /\ UNCHANGED <<codecVars, tableVars, digitalVars, wootingVars, engineVars, mouseVars, radioVars, comVars, switchVars, lockVars, storageVars, boardVars, heKeysVars>>

\* ReceiveFuture::poll once the DISABLED event is there, and the loop of
\* receive_task: a packet with a good CRC that meets the condition is
\* returned, otherwise a new ReceiveFuture is created and started
RadioReceivePoll ==
    /\ rr_pc = "receive"
    /\ hw.events_disabled # 0
    /\ LET ok == hw.events_crcok # 0
           done == [hw EXCEPT !.events_disabled = 0, !.events_crcok = 0]
       IN  \/ /\ ok
              /\ hw' = done
              /\ rf' = NoFuture
              /\ rr_pc' = "idle"
              /\ rr_ret' = "packet"
              /\ UNCHANGED rr_tries
           \/ /\ rr_tries < MaxReceives
              /\ hw' = FutureInit(done, FutureNew("receive"))
              /\ rf' = [FutureNew("receive") EXCEPT !.init = TRUE]
              /\ rr_tries' = rr_tries + 1
              /\ UNCHANGED <<rr_pc, rr_ret>>
    /\ UNCHANGED rr_calls
    /\ UNCHANGED <<codecVars, tableVars, digitalVars, wootingVars, engineVars, mouseVars, radioVars, comVars, switchVars, lockVars, storageVars, boardVars, heKeysVars>>

\* Radio::receive_with_conditions, the timer wins the select: receive_task
\* is dropped and with it the ReceiveFuture it is waiting on
RadioReceiveTimeout ==
    /\ rr_pc = "receive"
    /\ hw' = FutureDrop(hw, rf)
    /\ rr_pc' = "drop"
    /\ rr_ret' = "timeout"
    /\ UNCHANGED <<rf, rr_calls, rr_tries>>
    /\ UNCHANGED <<codecVars, tableVars, digitalVars, wootingVars, engineVars, mouseVars, radioVars, comVars, switchVars, lockVars, storageVars, boardVars, heKeysVars>>

\* Radio::send up to the first Pending: SendFuture::new, init
RadioSendCall ==
    /\ rr_pc = "idle"
    /\ rr_calls < MaxRadioCalls
    /\ rf' = [FutureNew("send") EXCEPT !.init = TRUE]
    /\ hw' = FutureInit(hw, FutureNew("send"))
    /\ rr_pc' = "send"
    /\ rr_ret' = "none"
    /\ rr_calls' = rr_calls + 1
    /\ rr_tries' = 1
    /\ UNCHANGED <<codecVars, tableVars, digitalVars, wootingVars, engineVars, mouseVars, radioVars, comVars, switchVars, lockVars, storageVars, boardVars, heKeysVars>>

\* SendFuture::poll once the DISABLED event is there
RadioSendPoll ==
    /\ rr_pc = "send"
    /\ hw.events_disabled # 0
    /\ hw' = [hw EXCEPT !.events_disabled = 0]
    /\ rf' = NoFuture
    /\ rr_pc' = "idle"
    /\ rr_ret' = "sent"
    /\ UNCHANGED <<rr_calls, rr_tries>>
    /\ UNCHANGED <<codecVars, tableVars, digitalVars, wootingVars, engineVars, mouseVars, radioVars, comVars, switchVars, lockVars, storageVars, boardVars, heKeysVars>>

\* RadioPerp::run, Advertisement: ADVERTISEMENT_TIMEOUT wins the select while
\* the task is inside rad.send, and the SendFuture is dropped
RadioSendDropped ==
    /\ rr_pc = "send"
    /\ hw' = FutureDrop(hw, rf)
    /\ rr_pc' = "drop"
    /\ rr_ret' = "dropped"
    /\ UNCHANGED <<rf, rr_calls, rr_tries>>
    /\ UNCHANGED <<codecVars, tableVars, digitalVars, wootingVars, engineVars, mouseVars, radioVars, comVars, switchVars, lockVars, storageVars, boardVars, heKeysVars>>

\* the end of Drop: the loop on r.state() is left when the peripheral is
\* DISABLED, the DISABLED event is cleared and control returns
RadioDropDone ==
    /\ rr_pc = "drop"
    /\ DropWaitOver(hw, rf)
    /\ hw' = IF rf.complete THEN hw ELSE [hw EXCEPT !.events_disabled = 0]
    /\ rf' = NoFuture
    /\ rr_pc' = "idle"
    /\ UNCHANGED <<rr_ret, rr_calls, rr_tries>>
    /\ UNCHANGED <<codecVars, tableVars, digitalVars, wootingVars, engineVars, mouseVars, radioVars, comVars, switchVars, lockVars, storageVars, boardVars, heKeysVars>>

RadioHwInit ==
    /\ hw = HwReset
    /\ rf = NoFuture
    /\ rr_pc = "idle"
    /\ rr_ret = "none"
    /\ rr_calls = 0
    /\ rr_tries = 0

RadioHwNext ==
    \/ HwProgress
    \/ RadioReceiveCall
    \/ RadioReceivePoll
    \/ RadioReceiveTimeout
    \/ RadioSendCall
    \/ RadioSendPoll
    \/ RadioSendDropped
    \/ RadioDropDone

(***************************************************************************)
(* The Keys mutex shared by com_loop and the scan/report task (com.rs,     *)
(* bin/left.rs).                                                           *)
(***************************************************************************)
BulkRequests == {"UpdateKeys", "KeyboardInfo", "WriteToFlash"}

\* the guard of com_loop at the end of the statement that took it:
\* UpdateKeys keeps it; KeyboardInfo and WriteToFlash keep it for the table
\* of the active profile and drop it at once for any other table
LockKept(req, active, i) == req = "UpdateKeys" \/ active = i

\* com_loop reads a bulk request; UpdateKeys reads its config_num too
LkRequest(req, c) ==
    /\ lk_pc = "idle"
    /\ lk_runs < MaxTransfers
    /\ lk_req' = req
    /\ lk_arg' = c
    /\ lk_i' = 0
    /\ lk_n' = 0
    /\ lk_pc' = "lock"
    /\ lk_runs' = lk_runs + 1
    /\ h_scans' = 0
    /\ h_cfg0' = lk_cfg
    /\ UNCHANGED <<k_lock, lk_cfg, sc_pc>>
    /\ UNCHANGED <<codecVars, tableVars, digitalVars, wootingVars, engineVars, mouseVars, radioVars, comVars, switchVars, hwVars, storageVars, boardVars, heKeysVars>>

\* self.keys.lock().await of the three requests and what follows it before
\* the first byte of the table moves
LkAcquire ==
    /\ lk_pc = "lock"
    /\ k_lock = "none"
    /\ k_lock' = IF LockKept(lk_req, lk_cfg, lk_i) THEN "com" ELSE "none"
    /\ lk_cfg' = IF lk_req = "UpdateKeys" THEN lk_arg ELSE lk_cfg
    /\ lk_pc' = "move"
    /\ UNCHANGED <<lk_req, lk_arg, lk_i, lk_n, lk_runs, sc_pc, h_scans, h_cfg0>>
    /\ UNCHANGED <<codecVars, tableVars, digitalVars, wootingVars, engineVars, mouseVars, radioVars, comVars, switchVars, hwVars, storageVars, boardVars, heKeysVars>>

\* a part of the table is read from the host (load_keys_from_com) or
\* written to it (write_keys_to_com); each part waits for the USB endpoint
LkMove ==
    /\ lk_pc = "move"
    /\ lk_n < TableChunks
    /\ lk_n' = lk_n + 1
    /\ UNCHANGED <<k_lock, lk_req, lk_arg, lk_i, lk_cfg, lk_pc, lk_runs, sc_pc,
                   h_scans, h_cfg0>>
    /\ UNCHANGED <<codecVars, tableVars, digitalVars, wootingVars, engineVars, mouseVars, radioVars, comVars, switchVars, hwVars, storageVars, boardVars, heKeysVars>>

\* the table is through: UpdateKeys drops the guard (after the fallback
\* load of profile 0 when the upload failed); KeyboardInfo and WriteToFlash
\* end the iteration, which drops a guard still held, and go to the next
\* profile
LkTableDone ==
    /\ lk_pc = "move"
    /\ lk_n = TableChunks
    /\ k_lock' = IF k_lock = "com" THEN "none" ELSE k_lock
    /\ IF lk_req = "UpdateKeys"
       THEN /\ \E ok \in BOOLEAN : lk_cfg' = IF ok THEN lk_cfg ELSE 0
            /\ lk_pc' = "idle"
            /\ UNCHANGED <<lk_i, lk_n>>
       ELSE /\ UNCHANGED lk_cfg
            /\ IF lk_i + 1 < NUM_CONFIGS
               THEN lk_i' = lk_i + 1 /\ lk_n' = 0 /\ lk_pc' = "lock"
               ELSE lk_pc' = "idle" /\ UNCHANGED <<lk_i, lk_n>>
    /\ UNCHANGED <<lk_req, lk_arg, lk_runs, sc_pc, h_scans, h_cfg0>>
    /\ UNCHANGED <<codecVars, tableVars, digitalVars, wootingVars, engineVars, mouseVars, radioVars, comVars, switchVars, hwVars, storageVars, boardVars, heKeysVars>>

\* between the first and the last byte of the transfer of com_loop
LkInTransfer ==
    /\ lk_pc \in {"lock", "move"}
    /\ lk_i > 0 \/ lk_n > 0

\* key_loop: KEYS.lock().await
ScanAcquire ==
    /\ sc_pc = "idle"
    /\ k_lock = "none"
    /\ h_scans < MaxScans
    /\ k_lock' = "scan"
    /\ sc_pc' = "report"
    /\ UNCHANGED <<lk_pc, lk_req, lk_arg, lk_i, lk_n, lk_cfg, lk_runs, h_scans, h_cfg0>>
    /\ UNCHANGED <<codecVars, tableVars, digitalVars, wootingVars, engineVars, mouseVars, radioVars, comVars, switchVars, hwVars, storageVars, boardVars, heKeysVars>>

\* key_loop: generate_report under the guard, which reads the key table and
\* loads profile c when a ChangeConfig(c) key is pressed; the guard is
\* dropped at the end of the iteration
ScanReport ==
    /\ sc_pc = "report"
    /\ \E change \in BOOLEAN, c \in ConfigIdx :
          lk_cfg' = IF change THEN c ELSE lk_cfg
    /\ k_lock' = "none"
    /\ sc_pc' = "idle"
    /\ h_scans' = IF LkInTransfer THEN h_scans + 1 ELSE h_scans
    /\ UNCHANGED <<lk_pc, lk_req, lk_arg, lk_i, lk_n, lk_runs, h_cfg0>>
    /\ UNCHANGED <<codecVars, tableVars, digitalVars, wootingVars, engineVars, mouseVars, radioVars, comVars, switchVars, hwVars, storageVars, boardVars, heKeysVars>>

LockInit ==
    /\ k_lock = "none"
    /\ lk_pc = "idle"
    /\ lk_req = "UpdateKeys"
    /\ lk_arg = 0
    /\ lk_i = 0
    /\ lk_n = 0
    /\ lk_cfg = 0
    /\ lk_runs = 0
    /\ sc_pc = "idle"
    /\ h_scans = 0
    /\ h_cfg0 = 0

LockNext ==
    \/ \E req \in BulkRequests, c \in ConfigIdx : LkRequest(req, c)
    \/ LkAcquire
    \/ LkMove
    \/ LkTableDone
    \/ ScanAcquire
    \/ ScanReport

(***************************************************************************)
(* The storage read service and its callers (storage.rs).                  *)
(***************************************************************************)
ReadCallers == 1 .. NumCallers

\* enum StorageKey
StorageCheck == [kind |-> "StorageCheck", config_num |-> 0, layer |-> 0]
KeyScanCode(c, l) == [kind |-> "KeyScanCode", config_num |-> c, layer |-> l]

\* the keys asked for: StorageCheck, and layer 0 of every profile
StorageReadKeys == {StorageCheck} \cup {KeyScanCode(c, 0) : c \in ConfigIdx}

\* what read_loop signals for a key; for is history: the key the item was
\* fetched for
ReadResult(key) ==
    [for |-> key, item |-> IF key = StorageCheck THEN None ELSE Some(key)]

\* a get_item that does not wait for the lock
ReadLockIgnored(l) == TRUE

\* STORAGE_REQUEST_READ_LOCK.lock().await goes on when the mutex is free
ReadLockFree(l) == l = None

\* a task calls get_item(key)
GetItemCall(t, key) ==
    /\ cl_pc[t] = "idle"
    /\ cl_calls[t] < MaxReads
    /\ cl_pc' = [cl_pc EXCEPT ![t] = "lock"]
    /\ cl_key' = [cl_key EXCEPT ![t] = key]
    /\ cl_calls' = [cl_calls EXCEPT ![t] = @ + 1]
    /\ UNCHANGED <<rq_lock, sig_read, sig_item, st_pc, st_key, cl_got>>
    /\ UNCHANGED <<codecVars, tableVars, digitalVars, wootingVars, engineVars, mouseVars, radioVars, comVars, switchVars, hwVars, lockVars, boardVars, heKeysVars>>

\* get_item: the lock is taken and the key is signalled to read_loop
GetItemLock(t) ==
    /\ cl_pc[t] = "lock"
    /\ ReadLockFree(rq_lock)
    /\ rq_lock' = Some(t)
    /\ sig_read' = Some(cl_key[t])
    /\ cl_pc' = [cl_pc EXCEPT ![t] = "wait"]
    /\ UNCHANGED <<sig_item, st_pc, st_key, cl_key, cl_calls, cl_got>>
    /\ UNCHANGED <<codecVars, tableVars, digitalVars, wootingVars, engineVars, mouseVars, radioVars, comVars, switchVars, hwVars, lockVars, boardVars, heKeysVars>>

\* get_item: STORAGE_SIGNAL_ITEM.wait() takes the item, the guard is dropped
\* and the item is returned
GetItemReturn(t) ==
    /\ cl_pc[t] = "wait"
    /\ sig_item # None
    /\ cl_got' = [cl_got EXCEPT ![t] = sig_item]
    /\ sig_item' = None
    /\ rq_lock' = IF rq_lock = Some(t) THEN None ELSE rq_lock
    /\ cl_pc' = [cl_pc EXCEPT ![t] = "idle"]
    /\ UNCHANGED <<sig_read, st_pc, st_key, cl_key, cl_calls>>
    /\ UNCHANGED <<codecVars, tableVars, digitalVars, wootingVars, engineVars, mouseVars, radioVars, comVars, switchVars, hwVars, lockVars, boardVars, heKeysVars>>

\* read_loop: STORAGE_SIGNAL_READ.wait() takes the key; StorageCheck is
\* answered at once, KeyScanCode goes to the flash
ReadLoopTake ==
    /\ st_pc = "wait"
    /\ sig_read # None
    /\ sig_read' = None
    /\ IF sig_read[1] = StorageCheck
       THEN /\ sig_item' = Some(ReadResult(sig_read[1]))
            /\ UNCHANGED <<st_pc, st_key>>
       ELSE /\ st_pc' = "fetch"
            /\ st_key' = sig_read[1]
            /\ UNCHANGED sig_item
    /\ UNCHANGED <<rq_lock, cl_pc, cl_key, cl_calls, cl_got>>
    /\ UNCHANGED <<codecVars, tableVars, digitalVars, wootingVars, engineVars, mouseVars, radioVars, comVars, switchVars, hwVars, lockVars, boardVars, heKeysVars>>

\* read_loop: Storage::get_item has fetched the item and it is signalled
ReadLoopFetch ==
    /\ st_pc = "fetch"
    /\ sig_item' = Some(ReadResult(st_key))
    /\ st_pc' = "wait"
    /\ UNCHANGED <<rq_lock, sig_read, st_key, cl_pc, cl_key, cl_calls, cl_got>>
    /\ UNCHANGED <<codecVars, tableVars, digitalVars, wootingVars, engineVars, mouseVars, radioVars, comVars, switchVars, hwVars, lockVars, boardVars, heKeysVars>>

StorageReadInit ==
    /\ rq_lock = None
    /\ sig_read = None
    /\ sig_item = None
    /\ st_pc = "wait"
    /\ st_key = StorageCheck
    /\ cl_pc = [t \in ReadCallers |-> "idle"]
    /\ cl_key = [t \in ReadCallers |-> StorageCheck]
    /\ cl_calls = [t \in ReadCallers |-> 0]
    /\ cl_got = [t \in ReadCallers |-> None]

StorageReadNext ==
    \/ \E t \in ReadCallers, key \in StorageReadKeys : GetItemCall(t, key)
    \/ \E t \in ReadCallers : GetItemLock(t)
    \/ \E t \in ReadCallers : GetItemReturn(t)
    \/ ReadLoopTake
    \/ ReadLoopFetch

(***************************************************************************)
(* Uploads of CombinedKey cells and the report ticks that use them.        *)
(***************************************************************************)
\* the other_index byte of the uploaded CombinedKey cell
UploadIndexBytes == {0, NUM_KEYS, 255}

\* the table of profile 0 with a CombinedKey cell for key 1 on layer 0
CombinedTable(other) ==
    [UploadTable(0) EXCEPT ![1][0] = CombinedKey(other, "KeyboardAa", "KeyboardBb")]

\* uploads the host sends: UpdateKeys of profile 0 with that table; it has no
\* ChangeConfig cell, so that get_keys never waits on its settle timer
CombinedInputs ==
    { HostFrames(<<0, 0>> \o TableStream(CombinedTable(other), -1, 0)) :
        other \in UploadIndexBytes }

CombinedNext ==
    \/ ProfileBoot
    \/ \E readings \in ProfileReadings : ProfileTick(readings)
    \/ \E frames \in CombinedInputs : HostSend(frames)
    \/ ProfileUpdateKeys

(***************************************************************************)
(* get_keys on the table of the whole board: the pushes of one call.       *)
(***************************************************************************)
\* NUM_KEYS of the split board: two halves of HALF_KEYS keys
BoardKeys == 2 * HALF_KEYS

\* cells of the board table: one code or three codes per key
BoardCells ==
    {Single("KeyboardAa"), Triple("KeyboardAa", "KeyboardAa", "KeyboardAa")}

\* generate_report: a new, empty Vec is handed to get_keys
BoardGetKeysStart ==
    /\ gk_i = BoardKeys
    /\ ~gk_panic
    /\ gk_calls < MaxBoardCalls
    /\ gk_i' = 0
    /\ gk_set' = <<>>
    /\ gk_calls' = gk_calls + 1
    /\ UNCHANGED gk_panic
    /\ UNCHANGED <<codecVars, tableVars, digitalVars, wootingVars, engineVars, mouseVars, radioVars, comVars, switchVars, hwVars, lockVars, storageVars, heKeysVars>>

\* get_keys, one iteration of its loop: get_pressed_code pushes the codes of
\* the cell when the key is pressed
BoardGetKeysStep(pressed, cell) ==
    /\ gk_i < BoardKeys
    /\ ~gk_panic
    /\ LET p == IF pressed THEN PushAll(gk_set, PressedCodes(cell, FALSE))
                ELSE [set |-> gk_set, panic |-> FALSE]
       IN  /\ gk_panic' = p.panic
           /\ gk_set' = IF p.panic THEN gk_set ELSE p.set
    /\ gk_i' = gk_i + 1
    /\ UNCHANGED gk_calls
    /\ UNCHANGED <<codecVars, tableVars, digitalVars, wootingVars, engineVars, mouseVars, radioVars, comVars, switchVars, hwVars, lockVars, storageVars, heKeysVars>>

BoardInit ==
    /\ gk_i = BoardKeys
    /\ gk_set = <<>>
    /\ gk_panic = FALSE
    /\ gk_calls = 0

BoardNext ==
    \/ BoardGetKeysStart
    \/ \E pressed \in BOOLEAN, cell \in BoardCells : BoardGetKeysStep(pressed, cell)

(***************************************************************************)
(* Keys<HeSwitch, I> of the hall-effect board (keys.rs, position.rs): the  *)
(* switches keep their variant and their calibration, the indicator is set *)
(* at boot, and profiles are loaded from storage.                          *)
(***************************************************************************)
\* SlavePosition::DEFAULT
SlaveDefault == [state |-> 0, analog_reading |-> U16Mod - 1]

HeWooting(wp0) == [kind |-> "Wooting", pos |-> wp0]
HeDigital(dp0) == [kind |-> "Digital", pos |-> dp0]
HeSlave(sp0) == [kind |-> "Slave", pos |-> sp0]

\* HeSwitch::DEFAULT
HeSwitchDefault == HeWooting(WootingDefault)

\* HeSwitch::calibrate
HeSwitchCalibrate(sw, buf) ==
    CASE sw.kind = "Wooting" -> HeWooting(WootingCalibrate(sw.pos, buf))
      [] sw.kind = "Digital" -> HeDigital(DigitalCalibrate(sw.pos, buf))
      [] sw.kind = "Slave"   -> sw

\* Keys::<HeSwitch, I>::default()
HeKeysDefault ==
    [KeysDefault EXCEPT !.key_states = [i \in KeyIdx |-> HeSwitchDefault]]

\* Keys::<HeSwitch, I>::load_keys_from_storage: `*self = Keys::default()`
\* of the missing record puts K::DEFAULT into every switch
HeLoadKeysFromStorage(ks, config_num, f) ==
    LET ld == LoadKeysFromStorage(ks, config_num, f)
    IN  IF ld.res = "Err" THEN [keys |-> HeKeysDefault, res |-> "Err"] ELSE ld

\* the variants the firmware assigns, and the ranges it assigns them to
HeAssigned == {HeSlave(SlaveDefault), HeDigital(DigitalDefault)}
HeRanges == {(NUM_KEYS \div 2) .. (NUM_KEYS - 1), KeyIdx}

\* readings of the calibration that move an extremum
HeCalibrateValues == {1390, 1710}

HeKeysInit ==
    /\ hk = HeKeysDefault
    /\ hk_op = "init"
    /\ hk_res = "none"

\* keys.set_indicator(indicator)
HkSetIndicator ==
    /\ ~hk.indicator
    /\ hk' = [hk EXCEPT !.indicator = TRUE]
    /\ hk_op' = "set_indicator"
    /\ UNCHANGED hk_res
    /\ UNCHANGED <<codecVars, tableVars, digitalVars, wootingVars, engineVars, mouseVars, radioVars, comVars, switchVars, hwVars, lockVars, storageVars, boardVars>>

\* keys.set_position_type_ranged(range, switch_type)
HkSetPositionTypeRanged(range, switch_type) ==
    /\ hk' = [hk EXCEPT !.key_states =
                [i \in KeyIdx |-> IF i \in range THEN switch_type
                                  ELSE hk.key_states[i]]]
    /\ hk_op' = "set_type"
    /\ UNCHANGED hk_res
    /\ UNCHANGED <<codecVars, tableVars, digitalVars, wootingVars, engineVars, mouseVars, radioVars, comVars, switchVars, hwVars, lockVars, storageVars, boardVars>>

\* the sensors calibrate switch i on a reading
HkCalibrate(i, buf) ==
    /\ hk' = [hk EXCEPT !.key_states[i] = HeSwitchCalibrate(hk.key_states[i], buf)]
    /\ hk_op' = "calibrate"
    /\ UNCHANGED hk_res
    /\ UNCHANGED <<codecVars, tableVars, digitalVars, wootingVars, engineVars, mouseVars, radioVars, comVars, switchVars, hwVars, lockVars, storageVars, boardVars>>

\* keys.load_keys_from_storage(config_num)
HkLoad(config_num) ==
    /\ LET ld == HeLoadKeysFromStorage(hk, config_num, flash)
       IN  /\ hk' = ld.keys
           /\ hk_res' = ld.res
    /\ hk_op' = "load"
    /\ UNCHANGED <<codecVars, tableVars, digitalVars, wootingVars, engineVars, mouseVars, radioVars, comVars, switchVars, hwVars, lockVars, storageVars, boardVars>>

HeKeysNext ==
    \/ HkSetIndicator
    \/ \E range \in HeRanges, switch_type \in HeAssigned :
          HkSetPositionTypeRanged(range, switch_type)
    \/ \E i \in KeyIdx, buf \in HeCalibrateValues : HkCalibrate(i, buf)
    \/ \E config_num \in ConfigIdx : HkLoad(config_num)

Init ==
    /\ CodecInit
    /\ TableInit
    /\ DigitalInit
    /\ WootingInit
    /\ overflow_checks = FALSE
    /\ EngineInit
    /\ HeKeysInit
    /\ BoardInit
    /\ StorageReadInit
    /\ LockInit
    /\ RadioHwInit
    /\ SwitchInit
    /\ ComInit
    /\ RadioInit
    /\ channel = "lossy"
    /\ MouseInit
    /\ flash = FlashWith(ConfigIdx \X LayerIdx)

\* the firmware built with or without overflow checks
InitAnyBuild ==
    /\ CodecInit
    /\ TableInit
    /\ DigitalInit
    /\ WootingInit
    /\ overflow_checks \in BOOLEAN
    /\ EngineInit
    /\ HeKeysInit
    /\ BoardInit
    /\ StorageReadInit
    /\ LockInit
    /\ RadioHwInit
    /\ SwitchInit
    /\ ComInit
    /\ RadioInit
    /\ channel = "lossy"
    /\ MouseInit
    /\ flash = FlashWith(ConfigIdx \X LayerIdx)

\* a switch of either variant, built with or without overflow checks
InitAnySwitch ==
    /\ CodecInit
    /\ TableInit
    /\ DigitalInit
    /\ WootingInit
    /\ overflow_checks \in BOOLEAN
    /\ EngineInit
    /\ HeKeysInit
    /\ BoardInit
    /\ StorageReadInit
    /\ LockInit
    /\ RadioHwInit
    /\ he_kind \in HeKinds
    /\ cal_i = 0
    /\ cal_setup = FALSE
    /\ ComInit
    /\ RadioInit
    /\ channel = "lossy"
    /\ MouseInit
    /\ flash = FlashWith(ConfigIdx \X LayerIdx)

\* the firmware started on any of the flash images
InitAnyFlash ==
    /\ CodecInit
    /\ TableInit
    /\ DigitalInit
    /\ WootingInit
    /\ overflow_checks = FALSE
    /\ EngineInit
    /\ HeKeysInit
    /\ BoardInit
    /\ StorageReadInit
    /\ LockInit
    /\ RadioHwInit
    /\ SwitchInit
    /\ ComInit
    /\ RadioInit
    /\ channel = "lossy"
    /\ MouseInit
    /\ flash \in FlashImages

\* the firmware of both radio sides started over a lossless channel
InitLossless ==
    /\ CodecInit
    /\ TableInit
    /\ DigitalInit
    /\ WootingInit
    /\ overflow_checks = FALSE
    /\ EngineInit
    /\ HeKeysInit
    /\ BoardInit
    /\ StorageReadInit
    /\ LockInit
    /\ RadioHwInit
    /\ SwitchInit
    /\ ComInit
    /\ RadioInit
    /\ channel = "lossless"
    /\ MouseInit
    /\ flash = FlashWith(ConfigIdx \X LayerIdx)

\* the firmware of both radio sides started over a lossy channel that may
\* go dead
InitFailing ==
    /\ CodecInit
    /\ TableInit
    /\ DigitalInit
    /\ WootingInit
    /\ overflow_checks = FALSE
    /\ EngineInit
    /\ HeKeysInit
    /\ BoardInit
    /\ StorageReadInit
    /\ LockInit
    /\ RadioHwInit
    /\ SwitchInit
    /\ ComInit
    /\ RadioInit
    /\ channel = "failing"
    /\ MouseInit
    /\ flash = FlashWith(ConfigIdx \X LayerIdx)

SpecCodec == Init /\ [][CodecNext]_vars

SpecTable == Init /\ [][TableNext]_vars

SpecDigital == Init /\ [][DigitalNext]_vars

SpecWooting == InitAnyBuild /\ [][WootingNext]_vars

SpecEngine == InitAnyFlash /\ [][EngineNext]_vars

SpecMouse == Init /\ [][MouseNext]_vars

\* the two radios over a channel that may lose packets
SpecRadio == Init /\ [][RadioNext]_vars

SpecFraming == Init /\ [][FrameNext]_vars

SpecCom == Init /\ [][ComNext]_vars

\* report ticks and uploads on the shared Keys
SpecProfile == Init /\ [][ProfileNext]_vars

SpecRadioHw == Init /\ [][RadioHwNext]_vars

SpecLock == Init /\ [][LockNext]_vars

SpecBoard == Init /\ [][BoardNext]_vars

SpecHeKeys == InitAnyFlash /\ [][HeKeysNext]_vars

SpecTableRaw == Init /\ [][TableRawNext]_vars

SpecCombined == Init /\ [][CombinedNext]_vars

SpecStorageRead == Init /\ [][StorageReadNext]_vars

SpecSwitch == InitAnySwitch /\ [][HeNext]_vars

SpecSensorsSetup == Init /\ [][SensorsSetupNext]_vars /\ WF_vars(SensorsSetupNext)

\* the two radios over a lossless channel.  The executor runs both radio
\* tasks for ever and every timer fires: a task that can repeatedly leave a
\* receive (by a packet that satisfies its condition or by its timeout) does
\* leave it, and a packet waiting in SEND_CHANNEL during the send window of
\* the peripheral is taken.  A send_packet call suspended on a full channel
\* is woken when the channel has room.  The application is free to call
\* send_packet and receive_packet or not.
SpecRadioLossless ==
    /\ InitLossless
    /\ [][RadioNext]_vars
    /\ WF_vars(CentralAdvertisement)
    /\ WF_vars(CentralConnectedReceive)
    /\ SF_vars(CentralConnectedReceive /\ cen' # cen)
    /\ WF_vars(CentralConnectedSend)
    /\ WF_vars(CentralAwaitAck)
    /\ SF_vars(CentralAwaitAck /\ cen_try' # cen_try)
    /\ WF_vars(PerpAdvertisement)
    /\ WF_vars(PerpAwaitEstablish)
    /\ SF_vars(PerpAwaitEstablish /\ per_try' # per_try)
    /\ WF_vars(PerpConnectedReceive)
    /\ SF_vars(PerpConnectedReceive /\ (per' # per \/ air' # None))
    /\ WF_vars(PerpConnectedSend)
    /\ SF_vars(PerpConnectedSend /\ per_pc' = "await_ack")
    /\ WF_vars(PerpAwaitAck)
    /\ SF_vars(PerpAwaitAck /\ per_try' # per_try)
    /\ WF_vars(\E side \in Sides : SendPacket(side) /\ app_wait[side] # None)

\* the two radios over a channel that may go dead; the executor runs each
\* radio task whenever it can go on, and every wait of a task ends with a
\* timer
SpecRadioFailing ==
    /\ InitFailing
    /\ [][RadioFailingNext]_vars
    /\ WF_vars(CentralTask)
    /\ WF_vars(PerpTask)

(***************************************************************************)
(* Properties of the codec.                                                *)
(***************************************************************************)
\* C1: for every ScanCodeBehavior value v, decoding the bytes produced by
\* encoding v yields a value equal to v.
C1_RoundTrip ==
    (c_op = "decoded" /\ c_rt) => (c_dec.err = "none" /\ c_dec.val = c_val)

\* C1 restricted to values whose other_index fits in one byte
C1_RoundTripByteIndex ==
    (c_op = "decoded" /\ c_rt /\ c_val.n < U8Mod) =>
        (c_dec.err = "none" /\ c_dec.val = c_val)

\* C2: encoding a table of N cells, then decoding cell after cell until the
\* bytes are exhausted, reproduces the N cells in order.
C2_TableRoundTrip ==
    (t_op = "decoded") => (t_dec.err = "none" /\ t_dec.codes = t_cells)

C2_TableRoundTripByteIndex ==
    (t_op = "decoded" /\ \A k \in 1..TableN : t_cells[k].n < U8Mod) =>
        (t_dec.err = "none" /\ t_dec.codes = t_cells)

\* the fixed length the claim gives for each known tag byte
C3_FixedLen(tag_byte) ==
    CASE tag_byte = 0 -> 2
      [] tag_byte = 1 -> 3
      [] tag_byte = 2 -> 4
      [] tag_byte = 3 -> 4
      [] tag_byte = 4 -> 2

\* C3: for every non-empty src, decode returns InvalidFormat when the first
\* byte is not a known tag (0..4), BufferTooSmall when the tag is known but
\* src is shorter than the tag's fixed length, a value only when src holds
\* at least the fixed length, and it never reads past that length.
C3_DecodeRejects ==
    (c_op = "decoded" /\ Len(c_src) > 0) =>
        /\ (c_src[1] \notin 0..4 => c_dec.err = "InvalidFormat")
        /\ (c_src[1] \in 0..4 /\ Len(c_src) < C3_FixedLen(c_src[1])
                => c_dec.err = "BufferTooSmall")
        /\ (c_dec.err = "none"
                => c_src[1] \in 0..4 /\ Len(c_src) >= C3_FixedLen(c_src[1]))
        /\ (c_src[1] \in 0..4 => \A i \in c_reads : i < C3_FixedLen(c_src[1]))
        /\ \A i \in c_reads : i < Len(c_src)

\* a Triple tag with one payload byte missing is refused
C3_Witness ==
    /\ c_op = "decoded"
    /\ ~c_rt
    /\ Len(c_src) = 3
    /\ c_src[1] = 2
    /\ c_dec.err = "BufferTooSmall"

(***************************************************************************)
(* Properties of the key-state machines.                                   *)
(***************************************************************************)
\* the averaged sample the last update_buf of dp compared
C4_Sample == BufAvg(dp.buffer)'

\* C4: for DigitalPosition, over any sample sequence, is_pressed() becomes
\* true at a sample <= actuation_point, stays true on every later sample
\* <= release_point, becomes false only (and always) at a sample >
\* release_point, and samples in the band between the two points never
\* change it.  The thresholds are those in force for the sample, and the
\* same holds for the thresholds before the sample.
C4_DigitalHysteresis ==
    [][d_op' = "update_buf" =>
        /\ (C4_Sample <= dp'.actuation_point => dp'.pressed)
        /\ (C4_Sample > dp'.release_point => ~dp'.pressed)
        /\ (dp'.actuation_point < C4_Sample /\ C4_Sample <= dp'.release_point
                => dp'.pressed = dp.pressed)
        /\ (dp.pressed /\ ~dp'.pressed => C4_Sample > dp'.release_point)
        /\ (~dp.pressed /\ dp'.pressed => C4_Sample <= dp'.actuation_point)
        /\ (C4_Sample <= dp.actuation_point => dp'.pressed)
        /\ (C4_Sample > dp.release_point => ~dp'.pressed)
        /\ (dp.actuation_point < C4_Sample /\ C4_Sample <= dp.release_point
                => dp'.pressed = dp.pressed)
        /\ dp'.actuation_point <= dp'.release_point
    ]_vars

\* a pressed switch held on a sample strictly inside the band
C4_Witness ==
    /\ d_op = "update_buf"
    /\ dp.pressed
    /\ BufAvg(dp.buffer) > dp.actuation_point
    /\ BufAvg(dp.buffer) < dp.release_point

\* the averaged sample the last update_buf of wp compared
C5_Sample == BufAvg(wp.buffer)'

\* the re-press condition as the claim states it, over the integers
C5_Condition ==
    \/ C5_Sample < wp.last_pos - wp.tolerance
    \/ (C5_Sample <= wp.actuation_point /\ ~wp.wooting)

\* C5: for a reading avg between lowest_point and release_point, update_buf
\* sets pressed exactly when avg < last_pos - tolerance, or when
\* avg <= actuation_point while the switch is not already triggered.
C5_RapidTrigger ==
    [][(/\ w_op' = "update_buf"
        /\ ~w_panic'
        /\ wp.lowest_point <= C5_Sample
        /\ C5_Sample <= wp.release_point)
       => /\ (C5_Condition => wp'.pressed)
          /\ (~C5_Condition => (wp'.pressed => wp.pressed))
    ]_vars

\* C5 where last_pos - tolerance does not underflow
C5_RapidTriggerNoUnderflow ==
    [][(/\ w_op' = "update_buf"
        /\ ~w_panic'
        /\ wp.last_pos >= wp.tolerance
        /\ wp.lowest_point <= C5_Sample
        /\ C5_Sample <= wp.release_point)
       => /\ (C5_Condition => wp'.pressed)
          /\ (~C5_Condition => (wp'.pressed => wp.pressed))
    ]_vars

\* the layer key i is resolved with on the tick being taken
C6_Layer(i) ==
    IF keys.current_layer[i] # None THEN keys.current_layer[i][1]
    ELSE report.current_layer

\* the codes the claim gives a pressed cell, st being the tick's key states
C6_CellCodes(cell, st) ==
    CASE cell.tag = "Single" -> <<ReportCodeFrom(cell.codes[1])>>
      [] cell.tag = "Double" ->
            <<ReportCodeFrom(cell.codes[1]), ReportCodeFrom(cell.codes[2])>>
      [] cell.tag = "Triple" ->
            <<ReportCodeFrom(cell.codes[1]), ReportCodeFrom(cell.codes[2]),
              ReportCodeFrom(cell.codes[3])>>
      [] cell.tag = "CombinedKey" ->
            <<Sticky, IF st[cell.n] THEN ReportCodeFrom(cell.codes[2])
                      ELSE ReportCodeFrom(cell.codes[1])>>

\* the codes of keys i .. NUM_KEYS-1 in increasing index order
RECURSIVE C6_Expected(_, _)
C6_Expected(i, st) ==
    IF i = NUM_KEYS THEN <<>>
    ELSE (IF st[i] THEN C6_CellCodes(keys.codes[i][C6_Layer(i)], st) ELSE <<>>)
         \o C6_Expected(i + 1, st)

\* C6: on a tick where no pressed key resolves to ChangeConfig, get_keys
\* leaves in the output set, in increasing key order, exactly the codes of
\* the cell of every pressed key at its resolved layer (Sticky then
\* combined_code or normal_code for a CombinedKey), nothing for an unpressed
\* key, and sets current_layer to Some(resolved layer) for pressed keys and
\* None for the others.
C6_GetKeysOutput ==
    [][(e_op # "settle" /\ e_op' = "report" /\ ~e_panic')
       => /\ pressed_keys' = C6_Expected(0, keys'.key_states)
          /\ \A i \in KeyIdx :
                keys'.current_layer[i] =
                    IF keys'.key_states[i] THEN Some(C6_Layer(i)) ELSE None
    ]_vars

\* one pressed key with Single(A) on base layer 0 gave [Letter(A)]
C6_Witness ==
    /\ e_op = "report"
    /\ keys.codes[0][0] = Single("KeyboardAa")
    /\ keys.key_states = [i \in KeyIdx |-> i = 0]
    /\ pressed_keys = <<Letter(KeyCodeAsU8("KeyboardAa"))>>
    /\ keys.current_layer[0] = Some(0)

\* the held state a ChangeConfig press leaves behind
C7_Cleared ==
    /\ pressed_keys = <<>>
    /\ \A i \in KeyIdx : ~keys.key_states[i] /\ keys.current_layer[i] = None

\* the profile after ChangeConfig(k) as the claim states it
C7_ProfileIsK ==
    /\ keys.config_num = e_arg[1]
    /\ ProfileStored(flash, e_arg[1])
    /\ keys.codes = StoredTable(flash, e_arg[1])

\* the profile after ChangeConfig(k): k when every layer of k is stored,
\* otherwise profile 0 with the all-default table
C7_ProfileIsKOrDefault ==
    IF ProfileStored(flash, e_arg[1])
    THEN keys.config_num = e_arg[1] /\ keys.codes = StoredTable(flash, e_arg[1])
    ELSE keys.config_num = 0 /\ keys.codes = KeysDefault.codes

\* C7 as stated: after a get_keys call in which a pressed key resolves to
\* ChangeConfig(k) the output set is empty, no key is pressed, no layer is
\* held, the profile number is k with the table of stored profile k, and the
\* call returns only after the 500 ms settle delay.
C7_ChangeConfig ==
    [][/\ (e_op' = "settle" => C7_Cleared' /\ C7_ProfileIsK')
       /\ (e_op = "settle" /\ e_op' # "settle" => settle_elapsed >= SETTLE_MS)
    ]_vars

\* C7 amended: as C7, but the profile is k with its stored table only when
\* every layer of profile k is stored; otherwise the profile number is 0 and
\* the table is all-default.
C7_ChangeConfigStored ==
    [][/\ (e_op' = "settle" => C7_Cleared' /\ C7_ProfileIsKOrDefault')
       /\ (e_op = "settle" /\ e_op' # "settle" => settle_elapsed >= SETTLE_MS)
    ]_vars

\* a ChangeConfig(1) press has switched to stored profile 1 and the settle
\* delay has run out
C7_Witness ==
    /\ e_op = "settle"
    /\ settle_elapsed >= SETTLE_MS
    /\ e_arg = Some(1)
    /\ keys.config_num = 1
    /\ keys.codes = StoredTable(flash, 1)
    /\ C7_Cleared

\* C8: once an operation that ran a profile load which found a layer record
\* missing has returned, every cell is Single(Undefined) and the operation
\* has returned an error to its caller.
C8_LoadError ==
    (load_res = "Err" /\ e_ret # "pending")
    => (keys.codes = KeysDefault.codes /\ e_ret = "Err")

\* a direct load of a profile with a missing layer returned Err
C8_Witness ==
    /\ e_op = "load"
    /\ load_res = "Err"
    /\ e_ret = "Err"
    /\ keys.codes = KeysDefault.codes

\* C9: a tick with a real press and no Sticky signal reports its own
\* modifier bits OR-ed with the byte latched by the last Sticky-only tick
\* (and clears the latch); every other tick reports only its own bits.
C9_StickyLatch ==
    [][e_op' = "report"
       => report'.key_report.modifier =
            ByteOf(IF TickPressed(pressed_keys') /\ ~TickSticky(pressed_keys')
                   THEN TickModifierBits(pressed_keys') \cup BitsOf(h_latch)
                   ELSE TickModifierBits(pressed_keys'))
    ]_vars

\* a latched modifier byte was consumed by a tick with a real press
C9_Witness ==
    /\ e_op = "report"
    /\ TickPressed(pressed_keys)
    /\ ~TickSticky(pressed_keys)
    /\ report.key_report.modifier # ByteOf(TickModifierBits(pressed_keys))

\* the first Layer signal of the tick
C10_FirstLayer(set) ==
    set[CHOOSE k \in TickLayers(set) : \A j \in TickLayers(set) : k <= j].val

\* C10: after a tick with a LayerToggle(n) signal the base layer is n; after
\* a tick with Layer signals only it is the layer of the first of them;
\* after a tick with no layer signal it is the last toggled layer (0 if
\* none was toggled), whatever Layer signals came before.
C10_LayerPersistence ==
    [][e_op' = "report"
       => report'.current_layer =
            IF TickToggles(pressed_keys') # {} THEN TickLastToggle(pressed_keys')
            ELSE IF TickLayers(pressed_keys') # {} THEN C10_FirstLayer(pressed_keys')
            ELSE h_toggled
    ]_vars

\* a momentary Layer signal over a toggled base layer
C10_Witness ==
    /\ e_op = "report"
    /\ TickToggles(pressed_keys) = {}
    /\ TickLayers(pressed_keys) # {}
    /\ h_toggled # 0
    /\ report.current_layer # h_toggled

\* C11 as stated: a report of either kind is returned only when the tick's
\* content differs from the report of that kind returned last, and nothing
\* is returned when both contents equal the reports returned last.
C11_ReportDiffing ==
    [][/\ (m_out'.key => m_out'.new_key_report # m_report.key_report)
       /\ (m_out'.mouse => m_out'.new_mouse_report # m_mouse.mouse_report)
       /\ ((/\ m_out'.new_key_report = m_report.key_report
            /\ m_out'.new_mouse_report = m_mouse.mouse_report)
           => (~m_out'.key /\ ~m_out'.mouse))
    ]_vars

\* C11 amended: a keyboard report is returned exactly when the tick's
\* keyboard content differs from the keyboard report returned last; a mouse
\* report is returned exactly when the tick's buttons differ from those of
\* the mouse report returned last or one of x, y, wheel is not zero.
C11_ReportDiffingMotion ==
    [][/\ (m_out'.key <=> m_out'.new_key_report # m_report.key_report)
       /\ (m_out'.mouse <=>
              \/ m_out'.new_mouse_report.buttons # m_mouse.mouse_report.buttons
              \/ m_out'.new_mouse_report.x # 0
              \/ m_out'.new_mouse_report.y # 0
              \/ m_out'.new_mouse_report.wheel # 0)
       /\ (m_out'.key => m_report'.key_report = m_out'.new_key_report)
       /\ (~m_out'.key => m_report'.key_report = m_report.key_report)
       /\ (m_out'.mouse => m_mouse'.mouse_report = m_out'.new_mouse_report)
       /\ (~m_out'.mouse => m_mouse'.mouse_report = m_mouse.mouse_report)
    ]_vars

\* a mouse report equal to the one returned before it was returned again
C11_Witness ==
    /\ m_out.mouse
    /\ m_out.new_mouse_report = m_mouse.mouse_report
    /\ m_mouse.mouse_delta.initial_press # None
    /\ m_mouse.mouse_delta.initial_press[1] > 0

(***************************************************************************)
(* Properties of the radio link.                                           *)
(***************************************************************************)
\* the side is in ConnectedReceive and the Data packet on the air is the one
\* it accepted and acknowledged last in this connection
C12_DuplicateOnAir(side) ==
    /\ PeerPacketOnAir(side)
    /\ air[1].type = "Data"
    /\ h_last[side] = Some(air[1])
    /\ IF side = "central"
       THEN cen.state = "ConnectedReceive" /\ cen_pc = "idle"
       ELSE per.state = "ConnectedReceive" /\ per_pc = "idle"

\* the step in which the side receives the packet on the air: the packet
\* leaves the air and the sender has not moved
C12_Receives(side) ==
    /\ air' # air
    /\ IF side = "central"
       THEN UNCHANGED <<per, per_pc, per_try, per_pkt>>
       ELSE UNCHANGED <<cen, cen_pc, cen_try, cen_pkt>>

\* C12: a Data packet with id S that was received and acknowledged, and is
\* received again with the same id S, is not pushed into the receive mailbox a
\* second time, and the receiver transmits an Ack with id S for the second
\* reception as it did for the first.
C12_DuplicateSuppression ==
    [][\A side \in Sides :
          (C12_DuplicateOnAir(side) /\ C12_Receives(side)) =>
              /\ RECV_CHANNEL'[side] = RECV_CHANNEL[side]
              /\ air' # None
              /\ air'[1].type = "Ack"
              /\ air'[1].id = air[1].id]_vars

\* the central is receiving a retransmission of the packet it acknowledged
C12_Witness ==
    /\ C12_DuplicateOnAir("central")
    /\ Len(h_log["central"]) > 0

\* payloads of the packets of a mailbox, oldest first
C13_Vals(q) == [i \in DOMAIN q |-> q[i].val]

\* C13: the receive mailbox never holds more than NUM_PACKETS packets, and it
\* holds the most recent arrivals in arrival order: the packets pushed so far
\* without those a push evicted (the oldest ones) and without those the
\* application has taken from the front.
C13_MailboxDropsOldest ==
    \A side \in Sides :
        /\ Len(RECV_CHANNEL[side]) <= NUM_PACKETS
        /\ C13_Vals(RECV_CHANNEL[side]) =
               SubSeq(h_log[side], h_evicted[side] + h_taken[side] + 1,
                      Len(h_log[side]))

\* a push has evicted the oldest packet of a full mailbox
C13_Witness ==
    /\ h_evicted["central"] > 0
    /\ Len(RECV_CHANNEL["central"]) = NUM_PACKETS

\* C20: send_packet completes without waiting, whatever the outbound mailbox
\* holds: no call is ever suspended.
C20_SendNeverWaits ==
    \A side \in Sides : app_wait[side] = None

\* a send_packet call is suspended on a full outbound mailbox
C20_Witness ==
    \E side \in Sides :
        /\ app_wait[side] # None
        /\ Len(SEND_CHANNEL[side]) = NUM_PACKETS

\* both sides are in a connected state
C14_Connected == cen.state # "Advertisement" /\ per.state # "Advertisement"

\* the packet with payload v is queued in the outbound mailbox of the side
C14_Queued(side, v) ==
    \E i \in DOMAIN SEND_CHANNEL[side] : SEND_CHANNEL[side][i].val = v

\* the packet with payload v has been pushed into the mailbox of the side
C14_Delivered(side, v) ==
    \E i \in DOMAIN h_log[side] : h_log[side][i] = v

\* payloads of the packets the application of the side sends
C14_Payloads(side) ==
    1..(IF side = "central" THEN MaxCentralSends ELSE MaxPerpSendsLossless)

\* C14: over a lossless channel, every non-empty packet that is queued in the
\* outbound mailbox of a side while the two sides are connected is eventually
\* pushed into the receive mailbox of the other side.
C14_EventualDelivery ==
    \A side \in Sides :
        \A v \in C14_Payloads(side) :
            (C14_Connected /\ C14_Queued(side, v)) ~> C14_Delivered(Peer(side), v)

\* nothing has ever been pushed into the receive mailbox of the peripheral
C14_PerpMailboxUnused == h_log["perp"] = <<>>

\* the central has sent a non-empty packet NUM_RETRIES times over the lossless
\* channel, the connected peripheral has taken the last copy from the air
\* without acknowledging it, and the central is about to discard the packet
C14_Witness ==
    /\ channel = "lossless"
    /\ cen_pc = "await_ack"
    /\ cen_try = NUM_RETRIES
    /\ cen_pkt.len # 0
    /\ air = None
    /\ per.state = "ConnectedReceive"
    /\ per_pc = "idle"
    /\ C14_PerpMailboxUnused


(***************************************************************************)
(* Properties of the byte-stream framing and of the command loop.          *)
(***************************************************************************)
\* the i-th byte a reader of the flushed stream is due: the written byte,
\* then the zero padding
C17_Expected(i) == IF i <= Len(h_written) THEN h_written[i] ELSE 0

\* number of bytes of the frames the writer has sent once flushed
C17_PaddedLen ==
    ((Len(h_written) + COM_BUFFER_SIZE - 1) \div COM_BUFFER_SIZE) * COM_BUFFER_SIZE

\* C17: the bytes returned by any interleaving of pop and pop_slice calls
\* are the written bytes in order, none skipped or repeated, followed only
\* by the zero padding of the last frame.
C17_FramingRoundTrip ==
    /\ Len(h_read) <= C17_PaddedLen
    /\ \A i \in 1..Len(h_read) : h_read[i] = C17_Expected(i)
    /\ h_read \o (IF cr.index = 0 THEN <<>>
                  ELSE SubSeq(cr.buffer, cr.index + 1, cr.buffer_len))
         \o [i \in 1..(Len(com_wire) * COM_BUFFER_SIZE) |->
                com_wire[((i - 1) \div COM_BUFFER_SIZE) + 1][((i - 1) % COM_BUFFER_SIZE) + 1]]
         \o (IF cw_flushed THEN <<>> ELSE SubSeq(cw.input, 1, cw.index))
       = [i \in 1..(IF cw_flushed THEN C17_PaddedLen ELSE Len(h_written)) |->
             C17_Expected(i)]

\* a flushed stream that ends inside its third frame was read to its end,
\* padding included, by calls that crossed the frame boundaries
C17_Witness ==
    /\ cw_flushed
    /\ Len(h_written) > 2 * COM_BUFFER_SIZE
    /\ Len(h_written) % COM_BUFFER_SIZE # 0
    /\ Len(h_read) = C17_PaddedLen
    /\ com_wire = <<>>

\* a step in which com_loop handles an UpdateKeys request whose table fails
\* to decode
C15_UploadFails ==
    /\ com_wire # <<>>
    /\ com_wire' # com_wire
    /\ com_op' = "UpdateKeys"
    /\ com_res' = "Err"

\* C15: after an UpdateKeys upload that fails to decode, the code table and
\* the active profile number are what they were before the upload started.
C15_FailedUploadKeepsConfig ==
    [][C15_UploadFails =>
          /\ keys'.codes = keys.codes
          /\ keys'.config_num = keys.config_num]_vars

\* a failed upload has completed with profile 0 of the storage in place,
\* all of its cells included
C15_Witness ==
    /\ com_op = "UpdateKeys"
    /\ com_res = "Err"
    /\ ~com_panic
    /\ keys.config_num = 0
    /\ keys.codes = StoredTable(flash, 0)

\* C16: no byte stream from the host makes com_loop panic.
C16_NoPanic == ~com_panic

\* com_loop has panicked on the request byte, or inside a WriteToFlash
\* payload
C16_Witness == com_panic /\ com_op \in {"Panic", "WriteToFlash"}

(***************************************************************************)
(* Properties of the analog switches and of their calibration.             *)
(***************************************************************************)
\* the while loop of HallEffectSensors::setup has ended
C18_SetupEnded == cal_i = 0 /\ cal_setup

\* C18: the calibration phase terminates for every sequence of ADC
\* samples: the sensor loop that repeats until all switches report
\* calibrated eventually ends.
C18_CalibrationTerminates == <>C18_SetupEnded

\* the phase has ended on non-zero samples, each switch calibrated on the
\* one sample its buffer holds
C18_Witness ==
    /\ C18_SetupEnded
    /\ wp.buffer[1] # 0
    /\ dp.buffer[1] # 0
    /\ wp.highest_point > DEFAULT_HIGH
    /\ dp.lowest_point < DEFAULT_LOW

\* the switch of the variant he_kind
C19_Switch == IF he_kind = "Wooting" THEN wp ELSE dp

\* the KeyState call last made on that switch
C19_Op == IF he_kind = "Wooting" THEN w_op ELSE d_op

\* C19: across setup, update_buf, calibrate and reset calls lowest_point
\* never increases and highest_point never decreases; reset clears the
\* pressed state and leaves lowest_point, highest_point, actuation_point
\* and release_point unchanged.
C19_ExtremaMonotonic ==
    [][/\ C19_Switch'.lowest_point <= C19_Switch.lowest_point
       /\ C19_Switch'.highest_point >= C19_Switch.highest_point
       /\ C19_Op' = "reset" =>
             /\ ~C19_Switch'.pressed
             /\ C19_Switch'.lowest_point = C19_Switch.lowest_point
             /\ C19_Switch'.highest_point = C19_Switch.highest_point
             /\ C19_Switch'.actuation_point = C19_Switch.actuation_point
             /\ C19_Switch'.release_point = C19_Switch.release_point]_vars

\* a switch whose two extrema, and with them its release point, have moved
\* has been reset
C19_Witness ==
    /\ C19_Op = "reset"
    /\ C19_Switch.lowest_point < DEFAULT_LOW
    /\ C19_Switch.highest_point > DEFAULT_HIGH
    /\ C19_Switch.release_point
           # DEFAULT_HIGH - ReleaseOffset(DEFAULT_HIGH - DEFAULT_LOW)

(***************************************************************************)
(* Properties of the held layers (keys.rs: get_keys).                      *)
(***************************************************************************)
\* a get_keys call may start: none is waiting on its settle timer
C21_CallMayStart == ~e_panic /\ e_op # "settle"

C22_FullCall == e_op # "settle" /\ e_op' = "report" /\ ~e_panic'

\* C22 as stated: while key i stays pressed over consecutive get_keys calls
\* it is resolved every time with the layer of the call where it first
\* became pressed, whatever base layer later calls pass; a key that was not
\* pressed on the previous call is resolved with the base layer of this call.
C22_FirstLayerKept ==
    [][C22_FullCall
       => \A i \in KeyIdx :
             h_pressed'[i]
             => keys'.current_layer[i] =
                  IF h_pressed[i] THEN h_first[i] ELSE Some(report.current_layer)
    ]_vars

\* C22 amended: a key whose state is still pressed from the previous call is
\* resolved with the layer it holds, and that layer stays held; a key whose
\* state is not pressed (released, or reset by a ChangeConfig cell or a
\* failed profile load) is resolved with the base layer of this call.  The
\* held layer of a key pressed without such a reset since its first press is
\* the layer of that first press.
C22_HeldLayerKept ==
    [][C22_FullCall
       => \A i \in KeyIdx :
             h_pressed'[i]
             => /\ keys'.current_layer[i] =
                     IF keys.key_states[i] THEN keys.current_layer[i]
                     ELSE Some(report.current_layer)
                /\ (keys.key_states[i] /\ keys.current_layer[i] = h_first[i])
                   => keys'.current_layer[i] = h_first'[i]
    ]_vars

\* key 0 was pressed on base layer 0 and is still held on layer 0 although
\* the base layer is now another one
C22_Witness ==
    /\ e_op = "report"
    /\ ~e_panic
    /\ h_pressed[0]
    /\ h_first[0] = Some(0)
    /\ keys.current_layer[0] = Some(0)
    /\ report.current_layer # 0

(***************************************************************************)
(* What a CombinedKey sees of its other key (keys.rs: get_pressed_code,    *)
(* report.rs: update_positions before get_keys).                           *)
(***************************************************************************)
\* the codes of keys i .. NUM_KEYS-1 in increasing index order when key i
\* sees the press states cur of the keys up to i and prev of those after i
RECURSIVE C23_Expected(_, _, _)
C23_Expected(i, cur, prev) ==
    IF i = NUM_KEYS THEN <<>>
    ELSE (IF cur[i]
          THEN C6_CellCodes(keys.codes[i][C6_Layer(i)],
                            [j \in KeyIdx |-> IF j <= i THEN cur[j] ELSE prev[j]])
          ELSE <<>>)
         \o C23_Expected(i + 1, cur, prev)

C24_ProfileChanged ==
    \/ keys'.config_num # keys.config_num
    \/ keys'.codes # keys.codes

\* C24: every step that changes the active profile (a ChangeConfig press, an
\* UpdateKeys upload, a load from storage) leaves every key state not
\* pressed and every held layer cleared, and the active profile number is
\* one number.
C24_ProfileChangeResets ==
    [][C24_ProfileChanged
       => /\ \A i \in KeyIdx : ~keys'.key_states[i]
          /\ \A i \in KeyIdx : keys'.current_layer[i] = None
          /\ keys'.config_num \in Nat
    ]_vars

\* an upload made profile 1 active while key 0 is pressed and holds a layer
C24_Witness ==
    /\ com_op = "UpdateKeys"
    /\ com_res = "Ok"
    /\ keys.config_num = 1
    /\ keys.codes = UploadTable(1)
    /\ keys.key_states[0]
    /\ keys.current_layer[0] # None

(***************************************************************************)
(* Properties of the mouse gates (report.rs: MouseDelta, mouse arms of     *)
(* generate_report).                                                       *)
(***************************************************************************)
C25_Axes == {"MouseX", "MouseY", "MouseScroll"}

\* the sum of the deltas of kind axis among codes[k..]
RECURSIVE C25_CellDelta(_, _, _)
C25_CellDelta(axis, codes, k) ==
    IF k > Len(codes) THEN 0
    ELSE (IF ReportCodeFrom(codes[k]).kind = axis
          THEN ReportCodeFrom(codes[k]).val ELSE 0)
         + C25_CellDelta(axis, codes, k + 1)

\* the sum of the deltas of kind axis of the keys i.. pressed in st (the
\* mouse table has the same cell on every layer)
RECURSIVE C25_Delta(_, _, _)
C25_Delta(axis, st, i) ==
    IF i = NUM_KEYS THEN 0
    ELSE (IF st[i] THEN C25_CellDelta(axis, m_keys.codes[i][0].codes, 1) ELSE 0)
         + C25_Delta(axis, st, i + 1)

\* a pressed key of st carries a code of one of the kinds
C25_Signalled(kinds, st) ==
    \E i \in KeyIdx :
        /\ st[i]
        /\ \E k \in 1 .. Len(m_keys.codes[i][0].codes) :
              ReportCodeFrom(m_keys.codes[i][0].codes[k]).kind \in kinds

\* the gate of an axis in the mouse fields m, and the axis' field of a
\* mouse report
C25_Gate(m, axis) ==
    IF axis = "MouseScroll" THEN m.scroll_delta ELSE m.mouse_delta

C25_Field(rep, axis) ==
    CASE axis = "MouseX" -> rep.x
      [] axis = "MouseY" -> rep.y
      [] axis = "MouseScroll" -> rep.wheel

\* the rules of the claim for one axis on one tick, kinds being the codes
\* taken to keep the axis' gate busy
C25_Rules(axis, kinds) ==
    LET prev == m_keys.key_states
        cur  == m_keys'.key_states
        g    == C25_Gate(m_mouse, axis)
        gn   == C25_Gate(m_mouse', axis)
        out  == C25_Field(m_out'.new_mouse_report, axis)
        full == C25_Delta(axis, cur, 0)
    IN  /\ out \in {0, full}
        \* the first tick of a press applies the delta
        /\ (C25_Signalled(kinds, cur) /\ ~C25_Signalled(kinds, prev))
           => out = full
        \* while held: nothing within the initial delay, and later only
        \* once the interval armed by the last applied tick has passed
        /\ (C25_Signalled(kinds, cur) /\ C25_Signalled(kinds, prev))
           => /\ gn.initial_press # None
              /\ gn.initial_press[1] <= INITIAL_DELAY_MS => out = 0
              /\ out # 0
                 => /\ g.initial_press # None
                    /\ gn.initial_press[1] - g.initial_press[1] > g.next_tick
                    /\ gn.next_tick = ThrottleMs(gn.initial_press[1])
        \* no code, no delta
        /\ ~C25_Signalled(kinds, cur) => out = 0

\* C25: while a mouse-axis or scroll key is held over consecutive ticks its
\* delta is applied on the first tick, not again before the 50 ms initial
\* delay has passed, and afterwards on at most one tick per throttle
\* interval; after a tick with no code for that axis the next press applies
\* its delta at once (the gate went back to idle).
C25_AxisThrottle ==
    [][\A axis \in C25_Axes : C25_Rules(axis, {axis})]_vars

\* the codes that keep the gate of an axis busy: MouseX and MouseY codes
\* share mouse_delta
C25_GateKinds(axis) ==
    IF axis = "MouseScroll" THEN {"MouseScroll"} ELSE {"MouseX", "MouseY"}

\* what holds instead: the same rules per gate, a gate being idle exactly
\* after a tick with none of its codes
C25_GateThrottle ==
    [][\A axis \in C25_Axes :
          /\ C25_Rules(axis, C25_GateKinds(axis))
          /\ C25_Gate(m_mouse', axis).initial_press = None
             <=> ~C25_Signalled(C25_GateKinds(axis), m_keys'.key_states)
    ]_vars

\* key 1 (MouseX) was pressed on this tick while key 0 (MouseY) was held and
\* its gate closed: no x delta came out
C25_Witness ==
    /\ m_keys.key_states[0] /\ m_keys.key_states[1] /\ ~m_keys.key_states[2]
    /\ m_mouse.mouse_delta.initial_press # None
    /\ m_mouse.mouse_delta.initial_press[1] > 0
    /\ m_mouse.scroll_delta.initial_press = Some(0)
    /\ m_out.new_mouse_report.wheel # 0
    /\ m_out.new_mouse_report.x = 0

(***************************************************************************)
(* Sequence ids, retries and missed events of the radio link               *)
(* (radio/radio.rs).                                                       *)
(***************************************************************************)
\* the step on which a side sends a new Data packet for the first time
C26_SendsNewData(side) ==
    IF side = "central"
    THEN cen_pc = "idle" /\ cen_pc' = "await_ack"
    ELSE per_pc # "await_ack" /\ per_pc' = "await_ack"

\* C26: in each direction of the link every new Data packet carries the id
\* of the previous new Data packet of that direction plus one, modulo 256.
C26_IdsIncrement ==
    [][\A side \in Sides :
          (C26_SendsNewData(side) /\ h_sent[side] # None)
          => /\ air'[1].type = "Data"
             /\ air'[1].addr = TxAddr(side)
             /\ air'[1].id = (h_sent[side][1] + 1) % (2 ^ 8)
    ]_vars

\* the peripheral has sent its second new Data packet of a connection, with
\* id 2 after id 1
C26_Witness ==
    /\ per_pc = "await_ack"
    /\ per_try = 1
    /\ h_sent["perp"] = Some(2)
    /\ air = Some(OnAir(per_pkt, "perp"))
    /\ per_pkt.type = "Data"
    /\ per_pkt.id = 2

\* the peripheral is left alone by the step
C27_PerpIdle == UNCHANGED <<per, per_pc, per_try, per_pkt>>

\* the central is left alone by the step
C27_CentralIdle == UNCHANGED <<cen, cen_pc, cen_try, cen_pkt>>

\* C27: a Data packet is transmitted at most NUM_RETRIES times, every
\* transmission being the same packet with the same id; the transmissions
\* stop at the first matching Ack; when every attempt went unacknowledged
\* the central gives the packet up (counting a missed event) and the
\* peripheral records a missed event.
C27_Retries ==
    /\ [](cen_try <= NUM_RETRIES /\ per_try <= NUM_RETRIES)
    /\ [][/\ (cen_pc = "await_ack" /\ cen_try' = cen_try + 1)
             => /\ air' = Some(OnAir(cen_pkt, "central"))
                /\ cen_pkt' = cen_pkt
          /\ (per_pc = "await_ack" /\ per_try' = per_try + 1)
             => /\ air' = Some(OnAir(per_pkt, "perp"))
                /\ per_pkt' = per_pkt
          \* the first matching Ack ends the transmissions
          /\ (/\ cen_pc = "await_ack"
              /\ PeerPacketOnAir("central")
              /\ CentralAckCond(cen, air[1])
              /\ air' = None
              /\ C27_PerpIdle)
             => cen_pc' = "idle" /\ cen'.num_miss_events = 0
          /\ (/\ per_pc = "await_ack"
              /\ PeerPacketOnAir("perp")
              /\ PerpAckCond(per_pkt.id, air[1])
              /\ air' = None
              /\ C27_CentralIdle)
             => per_pc' = "idle" /\ per'.num_missed_events = 0
          \* no Ack after the last attempt
          /\ (cen_pc = "await_ack" /\ cen_pc' = "idle" /\ cen'.num_miss_events # 0)
             => /\ cen_try = NUM_RETRIES
                /\ cen'.num_miss_events = cen.num_miss_events + 1
                /\ SEND_CHANNEL' = SEND_CHANNEL
          /\ (per_pc = "await_ack" /\ per_pc' = "send_loop")
             => /\ per_try = NUM_RETRIES
                /\ per'.num_missed_events = per.num_missed_events + 1
       ]_vars

\* the peripheral sent a Data packet NUM_RETRIES times without an Ack and
\* went on with no missed event counted
C27_Witness ==
    /\ per_pc = "send_loop"
    /\ h_miss = 1
    /\ per.num_missed_events = 0
    /\ h_sent["perp"] = Some(1)

\* the first Data packet of the peripheral's present connection is on the
\* air and the central, which has accepted no Data packet since it
\* established its connection, is in a receive slot
C28_FirstDataOnAir ==
    /\ per.state # "Advertisement"
    /\ per.tx_id = 1
    /\ h_sent["perp"] = Some(1)
    /\ air = Some(OnAir(per_pkt, "perp"))
    /\ per_pkt.type = "Data"
    /\ cen.state = "ConnectedReceive"
    /\ cen_pc = "idle"
    /\ cen.addr = PerpTxAddr
    /\ h_last["central"] = None

\* C28: establishing a connection resets the sequence state of both sides:
\* when the central takes the first Data packet the peripheral sends on a
\* new connection from the air, it accepts it, acknowledges it and delivers
\* it, whatever ids were exchanged on earlier connections.
C28_FirstDataAccepted ==
    [][(C28_FirstDataOnAir /\ air' # air /\ C27_PerpIdle)
       => /\ h_last'["central"] = air
          /\ air'[1].type = "Ack"
          /\ air'[1].id = air[1].id
          /\ cen'.rx_id = air[1].id
          /\ h_log'["central"] = Append(h_log["central"], air[1].val)
    ]_vars

\* the central holds rx_id 1 from an earlier connection while the first
\* Data packet of the new one, with id 1, is on the air
C28_Witness ==
    /\ C28_FirstDataOnAir
    /\ cen.rx_id = 1

\* C29: once the peripheral has missed more than MAX_MISSED_EVENTS events in
\* a row, its state is Advertisement; a receive slot without Data from the
\* central and a send whose retries all went without Ack both are misses.
C29_MissesForceAdvertisement ==
    h_miss > MAX_MISSED_EVENTS => per.state = "Advertisement"

\* receive slots alone: after MAX_MISSED_EVENTS + 1 of them without Data the
\* peripheral is back in Advertisement
C29_Witness ==
    /\ per.state = "Advertisement"
    /\ per_pc = "idle"
    /\ h_miss = MAX_MISSED_EVENTS + 1
    /\ per.num_missed_events = MAX_MISSED_EVENTS

\* from here on every packet on the link is lost
C30_Lost == channel = "dead"

C30_ConnectionStates == {"Advertisement", "ConnectedReceive", "ConnectedSend"}

C30_BothAdvertise ==
    /\ cen.state = "Advertisement"
    /\ per.state = "Advertisement"

\* C30: once every packet on the link is lost, the central and the
\* peripheral both come back to Advertisement and stay there, the central
\* listening and the peripheral sending its Advertise packet again and
\* again; the task of each side can always go on and no side is ever in a
\* state other than the three connection states
C30_LinkLossRecovers ==
    /\ [](C30_Lost => /\ ENABLED CentralTask
                      /\ ENABLED PerpTask
                      /\ cen.state \in C30_ConnectionStates
                      /\ per.state \in C30_ConnectionStates)
    /\ C30_Lost ~> []C30_BothAdvertise
    /\ C30_Lost ~> (C30_BothAdvertise /\ cen_pc = "idle" /\ per_pc = "adv_wait")
    /\ C30_Lost ~> (C30_BothAdvertise /\ cen_pc = "idle" /\ per_pc = "idle")

\* the link died during a connection and both sides have counted their way
\* back to Advertisement, where the peripheral advertises into the void
C30_Witness ==
    /\ C30_Lost
    /\ C30_BothAdvertise
    /\ cen.num_miss_events = MAX_MISSED_EVENTS
    /\ per.num_missed_events = MAX_MISSED_EVENTS
    /\ per_pc = "adv_wait"
    /\ air # None /\ air[1].type = "Advertise"

\* a step with which the side begins its send phase
C31_PhaseStep(side) ==
    IF side = "central"
    THEN cen.state = "ConnectedSend" /\ cen_pc = "idle" /\ cen_pc' # cen_pc
    ELSE per.state = "ConnectedSend" /\ per_pc = "idle" /\ per' # per

\* the step puts an empty Data packet of the side on the air
C31_SendsEmptyData(side) ==
    /\ air' # None
    /\ air'[1].type = "Data"
    /\ air'[1].addr = TxAddr(side)
    /\ air'[1].len = 0

\* C31: a connected side, central or peripheral, that reaches its send
\* phase with an empty outbound mailbox transmits a Data packet with an
\* empty payload in that phase.
C31_KeepAlive ==
    [][\A side \in Sides :
          (C31_PhaseStep(side) /\ SEND_CHANNEL[side] = <<>>)
          => C31_SendsEmptyData(side)
    ]_vars

\* the central alone does so
C31_CentralKeepAlive ==
    [][(C31_PhaseStep("central") /\ SEND_CHANNEL["central"] = <<>>)
          => C31_SendsEmptyData("central")
    ]_vars

\* the central has sent an empty Data packet from an empty mailbox
C31_Witness ==
    /\ cen.state = "ConnectedSend"
    /\ cen_pc = "await_ack"
    /\ cen_try = 1
    /\ cen_pkt.type = "Data"
    /\ cen_pkt.len = 0
    /\ air = Some(OnAir(cen_pkt, "central"))
    /\ app_sent["central"] = 0

\* control is back with the caller after a timeout or after a drop
C32_Returned == rr_pc = "idle" /\ rr_ret \in {"timeout", "dropped"}

\* C32: when receive_with_conditions returns because the timeout won, and
\* when a started receive or send future was dropped before completing, the
\* receive or send in flight has been cancelled and the radio peripheral is
\* DISABLED before control is back with the caller.
C32_DisabledOnReturn ==
    C32_Returned => /\ hw.state = "DISABLED"
                    /\ rf = NoFuture

\* a third receive attempt of one call was cut by the timeout while the
\* peripheral was receiving, and the call has returned
C32_Witness ==
    /\ C32_Returned
    /\ rr_ret = "timeout"
    /\ rr_tries = 3
    /\ hw = [HwReset EXCEPT !.events_crcok = 1]

\* C33: during each bulk transfer of the communication task (UpdateKeys,
\* KeyboardInfo, WriteToFlash) the Keys lock is held from the start to the
\* end of the whole transfer, so that between the first and the last byte
\* the scan/report task neither reads nor changes the key table and does
\* not switch the active profile.
C33_LockHeldThroughout ==
    LkInTransfer => /\ k_lock = "com"
                    /\ h_scans = 0
                    /\ lk_req # "UpdateKeys" => lk_cfg = h_cfg0

\* the upload of UpdateKeys is under the lock from its first to its last
\* byte
C33_UpdateKeysLocked ==
    (LkInTransfer /\ lk_req = "UpdateKeys") => (k_lock = "com" /\ h_scans = 0)

\* the upload of UpdateKeys has moved its whole table under the lock while
\* the scan task waits
C33_Witness ==
    /\ lk_req = "UpdateKeys"
    /\ lk_pc = "move"
    /\ lk_n = TableChunks
    /\ k_lock = "com"
    /\ sc_pc = "idle"
    /\ lk_cfg = 1

\* read requests the storage service has at hand: a key signalled and not
\* yet taken, a fetch under way, an item signalled and not yet taken
C34_Outstanding ==
    (IF sig_read # None THEN 1 ELSE 0)
    + (IF st_pc = "fetch" THEN 1 ELSE 0)
    + (IF sig_item # None THEN 1 ELSE 0)

\* C34: with any number of tasks calling get_item at the same time, at most
\* one read request is outstanding at the storage service, and every caller
\* receives the result for the key it asked for, never the result of
\* another caller's request.
C34_SequentialReads ==
    /\ C34_Outstanding <= 1
    /\ Cardinality({t \in ReadCallers : cl_pc[t] = "wait"}) <= 1
    /\ \A t \in ReadCallers :
          (cl_pc[t] = "idle" /\ cl_calls[t] > 0) => cl_got[t] = Some(ReadResult(cl_key[t]))

\* one caller has its item while a second waits for its own and a third
\* waits for the lock, each with a different key
C34_Witness ==
    \E a, b, c \in ReadCallers :
        /\ cl_pc[a] = "idle" /\ cl_got[a] = Some(ReadResult(KeyScanCode(0, 0)))
        /\ cl_pc[b] = "wait" /\ cl_key[b] = KeyScanCode(1, 0) /\ st_pc = "fetch"
        /\ cl_pc[c] = "lock" /\ cl_key[c] = StorageCheck

\* central and peripheral are both in a connected state
C35_BothConnected ==
    /\ cen.state \in {"ConnectedReceive", "ConnectedSend"}
    /\ per.state \in {"ConnectedReceive", "ConnectedSend"}

\* C35: over a channel that loses no packet, once the central and the
\* peripheral are both connected neither of them returns to Advertisement,
\* whether or not an application has data queued.
C35_ConnectionStable == [][C35_BothConnected => C35_BothConnected']_vars

\* every send event of the central ends without an Ack and is counted as
\* missed, and no receive slot of the peripheral accepts a Data packet
C35_CentralNeverAcked ==
    /\ [][(cen.state = "ConnectedSend" /\ cen'.state # "ConnectedSend")
             => cen'.num_miss_events = cen.num_miss_events + 1]_vars
    /\ [][(per.state = "ConnectedReceive" /\ per_pc = "idle" /\ per' # per)
             => \/ per'.num_missed_events = per.num_missed_events + 1
                \/ per'.state = "Advertisement"]_vars

\* both sides are connected over the lossless channel and the central has
\* already lost one send event for want of an Ack
C35_Witness ==
    /\ channel = "lossless"
    /\ C35_BothConnected
    /\ cen.num_miss_events = 1
    /\ cen.state = "ConnectedReceive"

\* the installed table has a CombinedKey cell whose other_index is no key
C36_BadCell ==
    \E i \in KeyIdx, l \in LayerIdx :
        /\ keys.codes[i][l].tag = "CombinedKey"
        /\ keys.codes[i][l].n \notin KeyIdx

\* C36: for every code table that can be installed (set_code, a storage
\* load, an upload over the byte stream) get_keys reads key states at
\* indices 0..NUM_KEYS-1 only; the other_index of a CombinedKey cell decoded
\* from a byte is a valid key index when it is used.
C36_IndexInRange == ~(e_panic /\ C36_BadCell)

\* an uploaded CombinedKey cell with a valid other_index has been used by
\* get_keys with both keys pressed
C36_Witness ==
    /\ ~e_panic
    /\ e_op = "report"
    /\ keys.codes[1][0] = CombinedKey(0, "KeyboardAa", "KeyboardBb")
    /\ h_pressed[1] /\ h_pressed[0]
    /\ keys.current_layer[1] = Some(0)

\* C37: for every press pattern and every code table, the codes pushed
\* into the output set during one get_keys call never exceed its capacity
\* of 64, so that no push fails.
C37_SetNeverFull == ~gk_panic

\* a call of get_keys on the whole board has ended with the set filled to
\* its capacity
C37_Witness ==
    /\ gk_calls = 1
    /\ gk_i = BoardKeys
    /\ ~gk_panic
    /\ Len(gk_set) = VEC_CAPACITY

\* the step is an update_buf whose average passes the first two branches,
\* so that last_pos - tolerance is computed
C38_SubtractionRun ==
    /\ w_op' = "update_buf"
    /\ ~w_panic
    /\ ~(C5_Sample > wp.release_point)
    /\ ~(C5_Sample < wp.lowest_point)

\* the third branch is not taken either, so that last_pos + tolerance is
\* computed
C38_AdditionRun ==
    /\ C38_SubtractionRun
    /\ ~(C5_Sample < SubU16(wp.last_pos, wp.tolerance, FALSE).val)
    /\ ~(C5_Sample <= wp.actuation_point /\ ~wp.wooting)

\* C38: in WootingPosition::update_buf the u16 computations
\* last_pos - tolerance and last_pos + tolerance neither underflow nor
\* overflow, for every sample sequence from the default state (last_pos = 0)
\* and after any reset.
C38_NoWrap ==
    [][/\ C38_SubtractionRun => wp.last_pos - wp.tolerance >= 0
       /\ C38_AdditionRun => wp.last_pos + wp.tolerance < U16Mod
    ]_vars

\* the sum alone never overflows
C38_NoOverflow ==
    [][C38_AdditionRun => wp.last_pos + wp.tolerance < U16Mod]_vars

\* update_buf has computed both without wrapping: a released switch at rest
\* between the thresholds
C38_Witness ==
    /\ w_op = "update_buf"
    /\ ~w_panic
    /\ wp.last_pos > wp.tolerance
    /\ ~wp.pressed
    /\ wp.wooting
    /\ BufAvg(wp.buffer) > wp.last_pos
    /\ BufAvg(wp.buffer) <= wp.release_point

\* C40: decoding a layer table from any byte buffer either returns a table
\* or returns an error, also for buffers that encode more than N cells or
\* end in the middle of a cell.
C40_DecodeReturns ==
    (t_op = "raw") => (t_dec.err # "Panic")

\* the decoder reads no byte past the end of the buffer
C40_ReadsInBuffer ==
    (t_op = "raw") =>
        (DeserializeLoopReads(t_bytes, 0, 0, TableN) \subseteq 0..(Len(t_bytes) - 1))

\* a buffer of fewer than N cells, or of N cells followed by part of a cell
\* or by a byte that is no tag, is decoded to a table or to an error
C40_ShortBufferReturns ==
    (t_op = "raw" /\ Len(t_bytes) < SINGLE_SERIAL_LENGTH * (TableN + 1)) =>
        (t_dec.err # "Panic")

\* a buffer that ends in the middle of its second cell has been refused
C40_Witness ==
    /\ t_op = "raw"
    /\ t_dec.err = "BufferTooSmall"
    /\ Len(t_bytes) > SINGLE_SERIAL_LENGTH
    /\ t_dec.codes[1] # LayerStorageDefault(TableN)[1]

\* variant and calibration extrema of a switch
C39_Calibration(sw) ==
    IF sw.kind = "Slave" THEN <<sw.kind>>
    ELSE <<sw.kind, sw.pos.lowest_point, sw.pos.highest_point>>

\* the step is a load that fails on a missing layer record
C39_LoadFails == hk_op' = "load" /\ hk_res' = "Err"

\* C39: a profile load that fails because a layer record is missing leaves
\* every switch with its variant and its calibration extrema, and leaves
\* the configured indicator set.
C39_FailedLoadKeepsSwitches ==
    [][C39_LoadFails =>
         /\ \A i \in KeyIdx :
               C39_Calibration(hk.key_states[i])' = C39_Calibration(hk.key_states[i])
         /\ hk.indicator' = hk.indicator
    ]_vars

\* a load that ends well leaves the switches and the indicator alone
C39_GoodLoadKeepsSwitches ==
    [][(hk_op' = "load" /\ hk_res' = "Ok") =>
         /\ hk.key_states' = hk.key_states
         /\ hk.indicator' = hk.indicator
    ]_vars

\* a failed load changes the code table, the held-layer memory and the
\* profile number as Keys::default() gives them
C39_FailedLoadDefaults ==
    [][C39_LoadFails =>
         /\ hk.codes' = KeysDefault.codes
         /\ hk.current_layer' = KeysDefault.current_layer
         /\ hk.config_num' = 0
    ]_vars

\* a load has failed on a missing record: every switch holds K::DEFAULT and
\* no indicator is set
C39_Witness ==
    /\ hk_op = "load"
    /\ hk_res = "Err"
    /\ hk = HeKeysDefault
====
